---- MODULE Spec2Model ----
(***************************************************************************)
(* Tuckr: the symlink reconciliation engine (src/src/symlinks.rs), the     *)
(* dotfile identity (src/src/dotfiles.rs) and the tree walk                *)
(* (src/src/fileops.rs), over an explicit model of the filesystem.         *)
(*                                                                         *)
(* A path is a sequence of components; the filesystem root is <<>>.  The   *)
(* filesystem is a function from the physical paths that exist to their    *)
(* node: a regular file, a directory, or a symlink with its stored value.  *)
(* Every std::fs / std::path call the code makes is an operator on that    *)
(* function, with the kernel's path walk (symlinks in intermediate         *)
(* components are followed) made explicit.                                 *)
(***************************************************************************)
EXTENDS Integers, Sequences, FiniteSets, TLC

VARIABLES fs,        \* the filesystem: physical path -> node
          platform,  \* env::consts::OS and env::consts::FAMILY of the build
          sym,       \* the SymlinkHandler built by the last try_new
          last,      \* the last command run, with its per-file outcomes
          pre,       \* the filesystem before the last command
          prev,      \* the command before the last one, with its own `pre`
          ncmds      \* the number of commands run

vars == <<fs, platform, sym, last, pre, prev, ncmds>>

-----------------------------------------------------------------------------
(* Bounds of the model *)

\* commands run in one behaviour
MaxCmds == 2

\* symlinks the kernel follows in one path walk before ELOOP
MaxHops == 3

-----------------------------------------------------------------------------
(* Paths *)

HomeDir == <<"home">>

\* get_dotfiles_path: dirs::home_dir().join(".dotfiles")
DotfilesDir == HomeDir \o <<".dotfiles">>

ConfigsDir == DotfilesDir \o <<"Configs">>
HooksDir == DotfilesDir \o <<"Hooks">>
SecretsDir == DotfilesDir \o <<"Secrets">>

\* a directory outside both the home targets and the managed tree
Elsewhere == <<"mnt">>

\* the result of a path walk that fails (ENOENT / ENOTDIR on an intermediate
\* component, ELOOP)
NoPath == <<"?">>

\* Path::starts_with: component-wise prefix
PathStartsWith(p, q) == Len(p) >= Len(q) /\ SubSeq(p, 1, Len(q)) = q

\* str::starts_with / str::ends_with
StrStartsWith(s, t) == Len(s) >= Len(t) /\ SubSeq(s, 1, Len(t)) = t
StrEndsWith(s, t) == Len(s) >= Len(t) /\ SubSeq(s, Len(s) - Len(t) + 1, Len(s)) = t

Parent(p) == SubSeq(p, 1, Len(p) - 1)

-----------------------------------------------------------------------------
(* Filesystem nodes and the path walk *)

FileNode == [k |-> "file", to |-> <<>>]
DirNode == [k |-> "dir", to |-> <<>>]
LinkNode(target) == [k |-> "link", to |-> target]

\* a directory that can be searched but not listed (no read permission):
\* fs::read_dir on it fails with EACCES
LockedDirNode == [k |-> "dir", to |-> <<"EACCES">>]

\* The kernel's path walk: `cur` is the directory reached so far, `rest` the
\* components still to walk.  A symlink met on the way is followed (all links
\* of the model are absolute); the last component is followed only when
\* `follow` is set.  The result is the physical path named, which may not
\* exist when only its last component is missing, or NoPath.
RECURSIVE Walk(_, _, _, _, _)
Walk(f, cur, rest, follow, hops) ==
    IF rest = <<>> THEN cur
    ELSE LET nxt == cur \o <<Head(rest)>>
             final == Len(rest) = 1
         IN IF nxt \notin DOMAIN f
               THEN IF final THEN nxt ELSE NoPath
            ELSE IF f[nxt].k = "link"
               THEN IF final /\ ~follow THEN nxt
                    ELSE IF hops >= MaxHops THEN NoPath
                    ELSE Walk(f, <<>>, f[nxt].to \o Tail(rest), follow, hops + 1)
            ELSE IF f[nxt].k = "dir"
               THEN Walk(f, nxt, Tail(rest), follow, hops)
            ELSE IF final THEN nxt ELSE NoPath

\* the physical path of p, following a symlink in the last component (stat)
Resolve(f, p) == Walk(f, <<>>, p, TRUE, 0)

\* the physical path of p itself (lstat)
ResolveNoFollow(f, p) == Walk(f, <<>>, p, FALSE, 0)

\* the kind of the node at physical path q
KindAt(f, q) == IF q \in DOMAIN f THEN f[q].k ELSE "none"

\* Path::exists
Exists(f, p) == KindAt(f, Resolve(f, p)) # "none"

\* Path::is_dir
IsDir(f, p) == KindAt(f, Resolve(f, p)) = "dir"

\* Path::is_file
IsFile(f, p) == KindAt(f, Resolve(f, p)) = "file"

\* Path::is_symlink
IsSymlink(f, p) == KindAt(f, ResolveNoFollow(f, p)) = "link"

\* fs::read_link, where IsSymlink holds
ReadLink(f, p) == f[ResolveNoFollow(f, p)].to

\* the filesystem without the entries at and beneath physical path q
Without(f, q) == [p \in {r \in DOMAIN f : ~PathStartsWith(r, q)} |-> f[p]]

\* a symlink holding `original` created at physical path q: [ok, fs]
SymlinkAt(f, original, q) ==
    IF q = NoPath \/ q \in DOMAIN f
       THEN [ok |-> FALSE, fs |-> f]
       ELSE [ok |-> TRUE, fs |-> (q :> LinkNode(original)) @@ f]

\* std::os::unix::fs::symlink(original, link): fails when link exists (a
\* symlink included, dangling or not) or its parent cannot be reached
SymlinkCall(f, original, link) == SymlinkAt(f, original, ResolveNoFollow(f, link))

\* the entry at physical path q unlinked, unless it is one of `refused` kinds
RemoveAt(f, q, refused) ==
    IF KindAt(f, q) \in {"file", "dir", "link"} \ refused
       THEN [ok |-> TRUE, fs |-> Without(f, q)]
       ELSE [ok |-> FALSE, fs |-> f]

\* fs::remove_file: [ok, fs]
RemoveFileCall(f, p) == RemoveAt(f, ResolveNoFollow(f, p), {"dir"})

\* fs::remove_dir_all: a symlink is removed itself, never followed
RemoveDirAllCall(f, p) == RemoveAt(f, ResolveNoFollow(f, p), {"file"})

\* the node at physical path q1, with what is beneath it, moved to q2
RenameAt(f, q1, q2) ==
    LET moved == {r \in DOMAIN f : PathStartsWith(r, q1)}
        re(r) == q2 \o SubSeq(r, Len(q1) + 1, Len(r))
        fits == \/ q2 \notin DOMAIN f
                \/ /\ f[q1].k = "dir" /\ f[q2].k = "dir"
                   /\ ~\E r \in DOMAIN f : r # q2 /\ PathStartsWith(r, q2)
                \/ f[q1].k # "dir" /\ f[q2].k # "dir"
    IN IF q1 \notin DOMAIN f \/ q2 = NoPath THEN [ok |-> FALSE, fs |-> f]
       ELSE IF q1 = q2 THEN [ok |-> TRUE, fs |-> f]
       ELSE IF PathStartsWith(q2, q1) \/ ~fits THEN [ok |-> FALSE, fs |-> f]
       ELSE [ok |-> TRUE,
             fs |-> [r \in ({x \in DOMAIN f : ~PathStartsWith(x, q1) /\ x # q2}
                            \cup {re(x) : x \in moved}) |->
                       IF \E x \in moved : re(x) = r
                          THEN f[CHOOSE x \in moved : re(x) = r]
                          ELSE f[r]]]

\* fs::rename(from, to): the node at `from` (a symlink itself, a directory with
\* its subtree) replaces what is at `to`; a directory replaces only an empty
\* directory, anything else replaces only a non-directory
RenameCall(f, from, to) == RenameAt(f, ResolveNoFollow(f, from), ResolveNoFollow(f, to))

-----------------------------------------------------------------------------
(* Dotfile identity (dotfiles.rs) *)

VALID_TARGETS == <<"_windows", "_macos", "_ios", "_linux", "_android", "_freebsd",
                   "_dragonfly", "_openbsd", "_netbsd", "_none", "_unix", "_windows">>

\* to_group_path inside Dotfile::try_from: the managed root p lies under, or
\* NoPath when it lies under none
DotfileRootDir(p) ==
    IF PathStartsWith(p, ConfigsDir) THEN ConfigsDir
    ELSE IF PathStartsWith(p, HooksDir) THEN HooksDir
    ELSE IF PathStartsWith(p, SecretsDir) THEN SecretsDir
    ELSE NoPath

\* to_group_path taking the whole path for the group path
GroupPathWhole(p, root) ==
    IF root = NoPath THEN NoPath
    ELSE p

\* the group path of p under the managed root `root` (dotfiles.rs 98-113):
\* the first component below the root must be a normal one, which ".." is not
GroupPathUnder(p, root) ==
    IF root = NoPath THEN NoPath
    ELSE IF p = root THEN root
    ELSE IF p[Len(root) + 1] = ".." THEN NoPath
    ELSE root \o <<p[Len(root) + 1]>>

ToGroupPath(p) == GroupPathUnder(p, DotfileRootDir(p))

MkDotfile(p, gp) == [path |-> p, group_path |-> gp, group_name |-> gp[Len(gp)]]

\* Dotfile::try_from, where it succeeds
Dotfile(p) == MkDotfile(p, ToGroupPath(p))

\* Dotfile::try_from (dotfiles.rs 75-129): Err when to_group_path fails
try_from(p) ==
    IF ToGroupPath(p) = NoPath THEN [ok |-> FALSE, dotfile |-> MkDotfile(<<>>, <<"">>)]
    ELSE [ok |-> TRUE, dotfile |-> Dotfile(p)]

group_ends_with_target_name(group) ==
    \E i \in DOMAIN VALID_TARGETS : StrEndsWith(group, VALID_TARGETS[i])

\* is_valid_target comparing with the OS alone
is_valid_target_os(plat, f) ==
    IF group_ends_with_target_name(f.group_name)
       THEN StrEndsWith(f.group_name, "_" \o plat.os)
       ELSE TRUE

\* Dotfile::is_valid_target, with the platform made explicit
is_valid_target(plat, f) ==
    IF group_ends_with_target_name(f.group_name)
       THEN StrEndsWith(f.group_name, "_" \o plat.os)
            \/ StrEndsWith(f.group_name, "_" \o plat.family)
       ELSE TRUE

\* targets_root comparing the group name as a string prefix
targets_root_by_name(f) == Len(f.group_name) >= 4 /\ SubSeq(f.group_name, 1, 4) = "Root"

\* Dotfile::targets_root (dotfiles.rs 153-156): Path::starts_with compares whole
\* components
targets_root(f) == PathStartsWith(f.group_path, ConfigsDir \o <<"Root">>)

\* the path below Configs without its first component, when it has more
\* than one (str::split_once on the separator)
BelowGroup(below) == IF Len(below) >= 2 THEN Tail(below) ELSE below

\* to_target_path keeping the file name alone
to_target_file_name(f) == HomeDir \o <<f.path[Len(f.path)]>>

\* Dotfile::to_target_path: the path below Configs/<group>, joined onto the
\* home directory (or the filesystem root for the Root group)
to_target_path(f) ==
    IF targets_root(f)
       THEN BelowGroup(SubSeq(f.path, Len(ConfigsDir) + 1, Len(f.path)))
       ELSE HomeDir \o BelowGroup(SubSeq(f.path, Len(ConfigsDir) + 1, Len(f.path)))

-----------------------------------------------------------------------------
(* HashCache = HashMap<String, HashSet<Dotfile>> *)

EmptyCache == [g \in {} |-> {}]

\* an insert that keeps the first file of a group only
CacheInsertFirst(cache, f) ==
    IF f.group_name \in DOMAIN cache
       THEN cache
       ELSE (f.group_name :> {f}) @@ cache

\* cache.entry(group_name).or_default(); cache.get_mut(group_name).insert(f)
CacheInsert(cache, f) ==
    IF f.group_name \in DOMAIN cache
       THEN [cache EXCEPT ![f.group_name] = @ \cup {f}]
       ELSE (f.group_name :> {f}) @@ cache

\* remove_empty_groups
remove_empty_groups(cache) ==
    [g \in {h \in DOMAIN cache : cache[h] # {}} |-> cache[g]]

\* canonicalize_groups dropping nothing
canonicalize_nothing(cache) == cache

\* canonicalize_groups dropping the file that lies above another as well
canonicalize_both_ways(cache) ==
    [g \in DOMAIN cache |->
        {file2 \in cache[g] :
            ~\E file \in cache[g] :
                file2.path # file.path
                /\ (PathStartsWith(file2.path, file.path)
                    \/ PathStartsWith(file.path, file2.path))}]

\* canonicalize_groups: in each group, drop every file whose path lies beneath
\* the path of another file of the group (both loops run over a copy)
canonicalize_groups(cache) ==
    [g \in DOMAIN cache |->
        {file2 \in cache[g] :
            ~\E file \in cache[g] :
                file2.path # file.path /\ PathStartsWith(file2.path, file.path)}]

\* validate without the loop of lines 184-198
CrossCancelNothing(symlinked, not_symlinked) == not_symlinked

\* lines 184-198: drop from not_symlinked what lies at or beneath a symlinked
\* file of the same group
CrossCancel(symlinked, not_symlinked) ==
    [g \in DOMAIN not_symlinked |->
        IF g \in DOMAIN symlinked
           THEN {file2 \in not_symlinked[g] :
                    ~\E file1 \in symlinked[g] : PathStartsWith(file2.path, file1.path)}
           ELSE not_symlinked[g]]

-----------------------------------------------------------------------------
(* The tree walk (fileops.rs, dir_map) *)

\* the entries of the directory at physical path q, named through d
EntriesAt(f, d, q, ord) ==
    [i \in 1..Len(SelectSeq(ord, LAMBDA e : (q \o <<e>>) \in DOMAIN f)) |->
        d \o <<SelectSeq(ord, LAMBDA e : (q \o <<e>>) \in DOMAIN f)[i]>>]

\* fs::read_dir(d), in the order the directory yields its entries: `ord` lists
\* every name, and the entries come in that order
ReadDirSeq(f, d, ord) == EntriesAt(f, d, Resolve(f, d), ord)

\* What a walk carries: the filesystem, the three caches validate fills, the
\* value each symlink_file call returned, the groups foreach_group called its
\* function on, and whether an unwrap panicked
WalkState(f) ==
    [fs |-> f, symlinked |-> EmptyCache, not_symlinked |-> EmptyCache,
     not_owned |-> EmptyCache, outcomes |-> {}, applied |-> <<>>, panic |-> FALSE]

\* the closure recording a foreign symlink as not symlinked as well
ClassifyTwice(st, f, target) ==
    IF IsSymlink(st.fs, target)
       THEN IF ReadLink(st.fs, target) = f.path
               THEN [st EXCEPT !.symlinked = CacheInsert(@, f)]
               ELSE [st EXCEPT !.not_owned = CacheInsert(@, f),
                               !.not_symlinked = CacheInsert(@, f)]
    ELSE IF IsDir(st.fs, target) THEN st
    ELSE [st EXCEPT !.not_symlinked = CacheInsert(@, f)]

\* the closure comparing the symlink with the group directory
ClassifyByGroup(st, f, target) ==
    IF IsSymlink(st.fs, target)
       THEN IF ReadLink(st.fs, target) = f.group_path
               THEN [st EXCEPT !.symlinked = CacheInsert(@, f)]
               ELSE [st EXCEPT !.not_owned = CacheInsert(@, f)]
    ELSE IF IsDir(st.fs, target) THEN st
    ELSE [st EXCEPT !.not_symlinked = CacheInsert(@, f)]

\* the body of the closure of validate, past the group-directory test
\* (symlinks.rs 120-151)
Classify(st, f, target) ==
    IF IsSymlink(st.fs, target)
       THEN IF ReadLink(st.fs, target) = f.path
               THEN [st EXCEPT !.symlinked = CacheInsert(@, f)]
               ELSE [st EXCEPT !.not_owned = CacheInsert(@, f)]
    ELSE IF IsDir(st.fs, target) THEN st
    ELSE [st EXCEPT !.not_symlinked = CacheInsert(@, f)]

ValidateDotfile(st, f) ==
    IF f.path = f.group_path THEN st ELSE Classify(st, f, to_target_path(f))

\* the closure validate passes to configs_dir.map (symlinks.rs 114-152)
ValidateEntry(st, p) == ValidateDotfile(st, Dotfile(p))

Outcome(st, p, ret, why) ==
    [st EXCEPT !.outcomes = @ \cup {[file |-> p, ret |-> ret, why |-> why]}]

\* symlinks.rs 32-39: Ok(()) when the symlink call failed,
\* Err(CouldntSymlinkFile) when it created the symlink
SymlinkResult(st, p, r) ==
    IF r.ok THEN [Outcome(st, p, "Err", "created") EXCEPT !.fs = r.fs]
    ELSE Outcome(st, p, "Ok", "failed")

\* symlink_file replacing what it finds at the target
SymlinkToReplacing(st, p, target_path) ==
    SymlinkResult(st, p,
        SymlinkAt(Without(st.fs, ResolveNoFollow(st.fs, target_path)), p,
                  ResolveNoFollow(st.fs, target_path)))

\* symlinks.rs 25-40
SymlinkTo(st, p, target_path) ==
    IF Exists(st.fs, target_path)
       THEN Outcome(st, p, "Err", "exists")
       ELSE SymlinkResult(st, p, SymlinkCall(st.fs, p, target_path))

\* symlink_file (symlinks.rs 22-66, the unix build)
symlink_file(st, p) == SymlinkTo(st, p, to_target_path(Dotfile(p)))

\* a call whose result is unwrapped
Unwrap(st, r) == [st EXCEPT !.fs = r.fs, !.panic = ~r.ok]

\* remove_symlink without the comparison of lines 282-284
RemoveTargetUnchecked(st, p, target_dotfile) ==
    IF ~IsSymlink(st.fs, target_dotfile) THEN st
    ELSE IF IsDir(st.fs, target_dotfile)
       THEN Unwrap(st, RemoveDirAllCall(st.fs, target_dotfile))
    ELSE [st EXCEPT !.fs = RemoveFileCall(st.fs, target_dotfile).fs]

\* symlinks.rs 278-294
RemoveTarget(st, p, target_dotfile) ==
    IF ~IsSymlink(st.fs, target_dotfile) THEN st
    ELSE IF p # ReadLink(st.fs, target_dotfile) THEN st
    ELSE IF IsDir(st.fs, target_dotfile)
       THEN Unwrap(st, RemoveDirAllCall(st.fs, target_dotfile))
    ELSE [st EXCEPT !.fs = RemoveFileCall(st.fs, target_dotfile).fs]

\* remove_symlink inside SymlinkHandler::remove (symlinks.rs 275-295)
remove_symlink(st, p) == RemoveTarget(st, p, to_target_path(Dotfile(p)))

\* the callback dir_map is given
Callback(mode, st, p) ==
    CASE mode = "validate" -> ValidateEntry(st, p)
      [] mode = "add" -> symlink_file(st, p)
      [] mode = "remove" -> remove_symlink(st, p)

\* fs::read_dir(d) succeeds: d is a directory that can be listed
CanList(f, d) == IsDir(f, d) /\ f[Resolve(f, d)] # LockedDirNode

\* the loop of dir_map (fileops.rs 26-35): pop the last entry of the queue,
\* call the callback on it, push its entries when it is a directory; the
\* unwrap of fileops.rs 30 panics when the directory cannot be listed
RECURSIVE DirMapLoop(_, _, _, _)
DirMapPush(mode, st, curr_file, rest, ord) ==
    DirMapLoop(mode,
               IF IsDir(st.fs, curr_file) /\ ~CanList(st.fs, curr_file)
                  THEN [st EXCEPT !.panic = TRUE]
                  ELSE st,
               IF CanList(st.fs, curr_file)
                  THEN rest \o ReadDirSeq(st.fs, curr_file, ord)
                  ELSE rest,
               ord)

DirMapLoop(mode, st, queue, ord) ==
    IF queue = <<>> \/ st.panic THEN st
    ELSE DirMapPush(mode, Callback(mode, st, queue[Len(queue)]), queue[Len(queue)],
                    SubSeq(queue, 1, Len(queue) - 1), ord)

\* dir_map (fileops.rs 14-36): panics when dir_path cannot be listed
dir_map(mode, st, dir_path, ord) ==
    IF ~CanList(st.fs, dir_path) THEN [st EXCEPT !.panic = TRUE]
    ELSE DirMapLoop(mode, st, ReadDirSeq(st.fs, dir_path, ord), ord)

-----------------------------------------------------------------------------
(* SymlinkHandler (symlinks.rs) *)

\* symlinks.rs 184-206: the cross-cancellation of not_symlinked against
\* symlinked, the canonicalization of each cache, the removal of the empty
\* groups.  `recorded` keeps what the walk recorded, for reference.
Canonical(st) ==
    [symlinked |-> remove_empty_groups(canonicalize_groups(st.symlinked)),
     not_symlinked |-> remove_empty_groups(canonicalize_groups(
                          CrossCancel(st.symlinked, st.not_symlinked))),
     not_owned |-> remove_empty_groups(canonicalize_groups(st.not_owned)),
     recorded |-> [symlinked |-> st.symlinked, not_symlinked |-> st.not_symlinked,
                   not_owned |-> st.not_owned],
     panic |-> st.panic, error |-> FALSE]

\* SymlinkHandler::validate (symlinks.rs 106-209)
validate(f, ord) == Canonical(dir_map("validate", WalkState(f), ConfigsDir, ord))

\* a SymlinkHandler with empty caches
NoHandler ==
    [symlinked |-> EmptyCache, not_symlinked |-> EmptyCache, not_owned |-> EmptyCache,
     recorded |-> [symlinked |-> EmptyCache, not_symlinked |-> EmptyCache,
                   not_owned |-> EmptyCache],
     panic |-> FALSE, error |-> FALSE]

\* SymlinkHandler::try_new (symlinks.rs 80-98): Err(CouldntFindDotfiles) when
\* get_dotfiles_path finds no dotfiles directory, else validate
try_new(f, ord) ==
    IF ~Exists(f, DotfilesDir) THEN [NoHandler EXCEPT !.error = TRUE] ELSE validate(f, ord)

\* SymlinkHandler::is_empty
is_empty(s) == s.symlinked = EmptyCache /\ s.not_symlinked = EmptyCache
               /\ s.not_owned = EmptyCache

\* the keys of a cache in the order the HashMap iterates them: `hord` lists
\* every group name
KeysSeq(cache, hord) == SelectSeq(hord, LAMBDA g : g \in DOMAIN cache)

None == [some |-> FALSE, groups |-> <<>>]
Some(groups) == [some |-> TRUE, groups |-> groups]

\* get_related_conditional_groups without the conditional groups
RelatedAlone(cache, plat, target_group, hord) ==
    IF target_group \notin DOMAIN cache THEN None ELSE Some(<<target_group>>)

\* symlinks.rs 229-248
RelatedIn(cache, plat, target_group, hord) ==
    IF target_group \notin DOMAIN cache THEN None
    ELSE Some(SelectSeq(KeysSeq(cache, hord),
                        LAMBDA group :
                           /\ StrStartsWith(group, target_group)
                           /\ group_ends_with_target_name(
                                 (CHOOSE x \in cache[group] : TRUE).group_name)
                           /\ is_valid_target(plat, CHOOSE x \in cache[group] : TRUE))
              \o <<target_group>>)

\* get_related_conditional_groups taking the other cache
get_related_swapped(s, plat, target_group, symlinked, hord) ==
    RelatedIn(IF symlinked THEN s.not_symlinked ELSE s.symlinked, plat, target_group, hord)

\* SymlinkHandler::get_related_conditional_groups
get_related_conditional_groups(s, plat, target_group, symlinked, hord) ==
    RelatedIn(IF symlinked THEN s.symlinked ELSE s.not_symlinked, plat, target_group, hord)

\* symlinks.rs 259-269 and 302-310: the walk over one group directory
GroupMap(mode, st, path, ord) ==
    IF Exists(st.fs, path) THEN dir_map(mode, st, path, ord) ELSE st

\* the loop over the groups leaving after the first group
ForGroupsFirst(mode, st, groups, ord) ==
    IF groups = <<>> \/ st.panic THEN st
    ELSE GroupMap(mode, st, ConfigsDir \o <<Head(groups)>>, ord)

\* the loop over the groups in SymlinkHandler::add and ::remove
RECURSIVE ForGroups(_, _, _, _)
ForGroups(mode, st, groups, ord) ==
    IF groups = <<>> \/ st.panic THEN st
    ELSE ForGroups(mode, GroupMap(mode, st, ConfigsDir \o <<Head(groups)>>, ord),
                   Tail(groups), ord)

ForRelated(mode, st, related, ord) ==
    IF ~related.some THEN st ELSE ForGroups(mode, st, related.groups, ord)

\* add resolving the group against symlinked
add_from_symlinked(s, plat, st, group, ord, hord) ==
    ForRelated("add", st, get_related_conditional_groups(s, plat, group, TRUE, hord), ord)

\* SymlinkHandler::add (symlinks.rs 252-271)
add(s, plat, st, group, ord, hord) ==
    ForRelated("add", st, get_related_conditional_groups(s, plat, group, FALSE, hord), ord)

\* SymlinkHandler::remove (symlinks.rs 274-312)
remove(s, plat, st, group, ord, hord) ==
    ForRelated("remove", st, get_related_conditional_groups(s, plat, group, TRUE, hord), ord)

-----------------------------------------------------------------------------
(* The commands (symlinks.rs) *)

\* the elements of a sequence
Range(q) == {q[i] : i \in DOMAIN q}

\* a HashSet<Dotfile> in some order of iteration
RECURSIVE SetSeq(_)
SetSeq(S) == IF S = {} THEN <<>>
             ELSE <<CHOOSE y \in S : TRUE>> \o SetSeq(S \ {CHOOSE y \in S : TRUE})

RECURSIVE CatFiles(_, _)
CatFiles(cache, ks) ==
    IF ks = <<>> THEN <<>> ELSE SetSeq(cache[Head(ks)]) \o CatFiles(cache, Tail(ks))

\* the files of the groups of `cache` that `groups` names, group by group in
\* the order the HashMap iterates
NamedFiles(cache, groups, hord) ==
    CatFiles(cache, SelectSeq(KeysSeq(cache, hord), LAMBDA g : g \in Range(groups)))

\* symlinks.rs 395-400
ForceRemove(st, target_file) ==
    IF IsDir(st.fs, target_file) THEN Unwrap(st, RemoveDirAllCall(st.fs, target_file))
    ELSE IF IsFile(st.fs, target_file) THEN Unwrap(st, RemoveFileCall(st.fs, target_file))
    ELSE st

\* remove_overlapping_files in add_cmd (symlinks.rs 388-403)
RECURSIVE remove_overlapping_files(_, _)
remove_overlapping_files(st, files) ==
    IF files = <<>> \/ st.panic THEN st
    ELSE remove_overlapping_files(ForceRemove(st, to_target_path(Head(files))), Tail(files))

\* symlinks.rs 425
AdoptRename(st, file, target_file) ==
    IF st.panic THEN st ELSE Unwrap(st, RenameCall(st.fs, target_file, file.path))

\* symlinks.rs 418-425
AdoptFile(st, file, target_file) ==
    AdoptRename(IF IsDir(st.fs, target_file)
                   THEN Unwrap(st, RemoveDirAllCall(st.fs, file.path))
                ELSE IF IsFile(st.fs, target_file)
                   THEN Unwrap(st, RemoveFileCall(st.fs, file.path))
                ELSE st,
                file, target_file)

\* adopt_overlapping_files in add_cmd (symlinks.rs 411-428)
RECURSIVE adopt_overlapping_files(_, _)
adopt_overlapping_files(st, files) ==
    IF files = <<>> \/ st.panic THEN st
    ELSE adopt_overlapping_files(AdoptFile(st, Head(files), to_target_path(Head(files))),
                                 Tail(files))

\* symlinks.rs 387-407
Force(s, st, groups, force, hord) ==
    IF force
       THEN remove_overlapping_files(
               remove_overlapping_files(st, NamedFiles(s.not_owned, groups, hord)),
               NamedFiles(s.not_symlinked, groups, hord))
       ELSE st

\* symlinks.rs 410-432
Adopt(s, st, groups, adopt, hord) ==
    IF adopt
       THEN adopt_overlapping_files(
               adopt_overlapping_files(st, NamedFiles(s.not_owned, groups, hord)),
               NamedFiles(s.not_symlinked, groups, hord))
       ELSE st

AddAfter(s, plat, st, group, ord, hord) ==
    IF st.panic THEN st ELSE add(s, plat, st, group, ord, hord)

\* the closure add_cmd passes to foreach_group (symlinks.rs 385-435)
AddGroup(s, plat, st, c, group, ord, hord) ==
    AddAfter(s, plat,
             Adopt(s, Force(s, st, c.groups, c.force, hord), c.groups, c.adopt, hord),
             group, ord, hord)

\* dotfiles::check_invalid_groups(DotfileType::Configs, groups)
check_invalid_groups(f, groups) ==
    SelectSeq(groups, LAMBDA group : ~Exists(f, ConfigsDir \o <<group>>) /\ group # "*")

\* ForeachTargets with the wildcard branch reading the other map (the test of
\* symlinks.rs 346 inverted)
ForeachTargetsOtherMap(s, groups, exclude, symlinked, hord) ==
    IF "*" \in Range(groups)
       THEN SelectSeq(KeysSeq(IF symlinked THEN s.symlinked ELSE s.not_symlinked, hord),
                      LAMBDA g : g \notin Range(exclude))
       ELSE SelectSeq(groups, LAMBDA g : g \notin Range(exclude))

\* the groups foreach_group calls its function on, in order (symlinks.rs
\* 345-371): under the wildcard the keys of not_symlinked (add) or symlinked
\* (remove), else the groups named; the excluded ones skipped
ForeachTargets(s, groups, exclude, symlinked, hord) ==
    IF "*" \in Range(groups)
       THEN SelectSeq(KeysSeq(IF symlinked THEN s.not_symlinked ELSE s.symlinked, hord),
                      LAMBDA g : g \notin Range(exclude))
       ELSE SelectSeq(groups, LAMBDA g : g \notin Range(exclude))

RECURSIVE ForeachLoop(_, _, _, _, _, _, _)
ForeachLoop(s, plat, st, c, targets, ord, hord) ==
    IF targets = <<>> \/ st.panic THEN st
    ELSE ForeachLoop(s, plat,
                     IF c.op = "add"
                        THEN AddGroup(s, plat, [st EXCEPT !.applied = Append(@, Head(targets))],
                                      c, Head(targets), ord, hord)
                        ELSE remove(s, plat, [st EXCEPT !.applied = Append(@, Head(targets))],
                                    Head(targets), ord, hord),
                     c, Tail(targets), ord, hord)

Finished(s, st) == [sym |-> s, st |-> st, exit |-> IF st.panic THEN "panic" ELSE "SUCCESS"]

\* foreach_group past the call of try_new (symlinks.rs 333-373)
ForeachWith(s, f, plat, c, ord, hord) ==
    IF s.error THEN [sym |-> s, st |-> WalkState(f), exit |-> "CouldntFindDotfiles"]
    ELSE IF s.panic THEN [sym |-> s, st |-> [WalkState(f) EXCEPT !.panic = TRUE], exit |-> "panic"]
    ELSE IF check_invalid_groups(f, c.groups) # <<>>
       THEN [sym |-> s, st |-> WalkState(f), exit |-> "NoSetupFolder"]
    ELSE Finished(s, ForeachLoop(s, plat, WalkState(f), c,
                                 ForeachTargets(s, c.groups, c.exclude, c.op = "add", hord),
                                 ord, hord))

\* foreach_group (symlinks.rs 322-374) under add_cmd (c.op = "add", symlinked =
\* true) and remove_cmd (c.op = "remove", symlinked = false): the handler is
\* built once, before any group is acted on
foreach_group(f, plat, c, ord, hord) == ForeachWith(try_new(f, ord), f, plat, c, ord, hord)

\* add_cmd (symlinks.rs 377-441) and remove_cmd (symlinks.rs 444-451)
RunCmd(f, plat, c, ord, hord) == foreach_group(f, plat, c, ord, hord)

\* status_cmd (symlinks.rs 724-748), as far as it changes state: try_new
StatusResult(s, f) ==
    [sym |-> s, st |-> [WalkState(f) EXCEPT !.panic = s.panic],
     exit |-> IF s.error THEN "CouldntFindDotfiles"
              ELSE IF s.panic THEN "panic"
              ELSE IF is_empty(s) THEN "NoSetupFolder"
              ELSE "SUCCESS"]

-----------------------------------------------------------------------------
(* The filesystems and the inputs the model starts from *)

\* every name a directory can hold, in one order of listing
NameOrder == <<"Group1", "Group1_unix", "a", "b", "x", "y">>

Reverse(q) == [i \in 1..Len(q) |-> q[Len(q) + 1 - i]]

\* the orders read_dir and the HashMaps are taken to iterate in
Orders == {NameOrder, Reverse(NameOrder)}

Platforms == {[os |-> "linux", family |-> "unix"]}

\* a directory `root` holding the files `files` (paths relative to root)
Tree(root, files) ==
    LET dirs == UNION {{SubSeq(r, 1, i) : i \in 0..(Len(r) - 1)} : r \in files}
    IN [q \in {root \o r : r \in dirs \cup files} |->
          IF \E r \in files : root \o r = q THEN FileNode ELSE DirNode]

EmptyFs == [q \in {} |-> FileNode]

\* the directories every start has, and a directory outside the home targets
BaseFs ==
    [q \in {HomeDir, DotfilesDir, ConfigsDir, HooksDir, SecretsDir, Elsewhere,
            Elsewhere \o <<"x">>} |->
        IF q = Elsewhere \o <<"x">> THEN FileNode ELSE DirNode]

G1 == ConfigsDir \o <<"Group1">>
G1u == ConfigsDir \o <<"Group1_unix">>

Group1Trees == {Tree(G1, fl) : fl \in {{<<"a", "x">>, <<"a", "y">>, <<"b">>}, {<<"b">>}}}

UnixTrees == {EmptyFs, Tree(G1u, {<<"a", "y">>}), Tree(G1u, {<<"b">>})}

At(q, node) == q :> node

\* what the home directory holds at a, a/x and a/y: nothing, a file, the
\* symlink link creates, a symlink to a directory elsewhere, a dangling
\* symlink, or a directory
HomeA ==
    {EmptyFs, At(HomeDir \o <<"a">>, FileNode),
     At(HomeDir \o <<"a">>, LinkNode(G1 \o <<"a">>)),
     At(HomeDir \o <<"a">>, LinkNode(Elsewhere)),
     At(HomeDir \o <<"a">>, LinkNode(Elsewhere \o <<"gone">>))}
    \cup {At(HomeDir \o <<"a">>, DirNode) @@ hx @@ hy :
            hx \in {EmptyFs, At(HomeDir \o <<"a", "x">>, LinkNode(G1 \o <<"a", "x">>))},
            hy \in {EmptyFs, At(HomeDir \o <<"a", "y">>, LinkNode(Elsewhere \o <<"x">>))}}

\* what the home directory holds at b
HomeB ==
    {EmptyFs, At(HomeDir \o <<"b">>, FileNode),
     At(HomeDir \o <<"b">>, LinkNode(G1 \o <<"b">>)),
     At(HomeDir \o <<"b">>, LinkNode(Elsewhere \o <<"x">>))}

InitFs == {BaseFs @@ m1 @@ m2 @@ ha @@ hb :
              m1 \in Group1Trees, m2 \in UnixTrees, ha \in HomeA, hb \in HomeB}

GroupLists == {<<"Group1">>, <<"*">>}
ExcludeLists == {<<>>}

NoCmd == [op |-> "none", groups |-> <<>>, exclude |-> <<>>, force |-> FALSE,
          adopt |-> FALSE, outcomes |-> {}, applied |-> <<>>, exit |-> "SUCCESS"]

-----------------------------------------------------------------------------
(* The state machine: one action per command *)

Init ==
    /\ fs \in InitFs
    /\ platform \in Platforms
    /\ \E ord \in Orders : sym = validate(fs, ord)
    /\ last = NoCmd
    /\ pre = fs
    /\ prev = [cmd |-> NoCmd, pre |-> fs]
    /\ ncmds = 0

Record(c, r) ==
    /\ fs' = r.st.fs
    /\ sym' = r.sym
    /\ last' = [c EXCEPT !.outcomes = r.st.outcomes, !.applied = r.st.applied,
                          !.exit = r.exit]
    /\ pre' = fs
    /\ prev' = [cmd |-> last, pre |-> pre]
    /\ ncmds' = ncmds + 1
    /\ UNCHANGED platform

\* tuckr add <groups> [-e <exclude>]
AddCmd ==
    /\ ncmds < MaxCmds
    /\ \E groups \in GroupLists, exclude \in ExcludeLists, ord \in Orders, hord \in Orders :
          LET c == [NoCmd EXCEPT !.op = "add", !.groups = groups, !.exclude = exclude]
          IN Record(c, RunCmd(fs, platform, c, ord, hord))

\* tuckr rm <groups> [-e <exclude>]
RemoveCmd ==
    /\ ncmds < MaxCmds
    /\ \E groups \in GroupLists, exclude \in ExcludeLists, ord \in Orders, hord \in Orders :
          LET c == [NoCmd EXCEPT !.op = "remove", !.groups = groups, !.exclude = exclude]
          IN Record(c, RunCmd(fs, platform, c, ord, hord))

\* tuckr status: try_new, and nothing else that changes state
StatusCmd ==
    /\ ncmds < MaxCmds
    /\ \E ord \in Orders :
          Record([NoCmd EXCEPT !.op = "status"], StatusResult(try_new(fs, ord), fs))

Next == AddCmd \/ RemoveCmd \/ StatusCmd

Spec == Init /\ [][Next]_vars

-----------------------------------------------------------------------------
(* Vocabulary of the properties *)

\* the entries beneath the group directories of Configs
ManagedEntries(f) ==
    {q \in DOMAIN f : PathStartsWith(q, ConfigsDir) /\ Len(q) >= Len(ConfigsDir) + 2}

\* the entries beneath the directory of group g
GroupEntries(f, g) == {q \in ManagedEntries(f) : q[Len(ConfigsDir) + 1] = g}

\* the home target of the managed path p
Target(p) == to_target_path(Dotfile(p))

\* what lstat finds at the target of p: "none", "file", "dir" or "link"
TargetKind(f, p) == KindAt(f, ResolveNoFollow(f, Target(p)))

\* the node at physical path q is a symlink holding the path of a managed
\* entry whose target is q
OwnedLink(f, q) ==
    /\ f[q].k = "link"
    /\ f[q].to \in ManagedEntries(f)
    /\ ResolveNoFollow(f, Target(f[q].to)) = q

\* the physical paths whose node differs between f and g
Changed(f, g) ==
    {q \in DOMAIN f \cup DOMAIN g : q \notin DOMAIN f \/ q \notin DOMAIN g \/ f[q] # g[q]}

\* the paths of the files of a cache
Paths(cache) == UNION {{x.path : x \in cache[g]} : g \in DOMAIN cache}

\* p lies strictly beneath q
Beneath(p, q) == p # q /\ PathStartsWith(p, q)

-----------------------------------------------------------------------------
(* C1: unlink removes only symlinks that hold the path of the managed entry   *)
(* they are the target of, and changes nothing else: a target whose symlink   *)
(* holds any other path is still there, with the same value, after unlink.    *)
C1_ForeignProtection ==
    last.op = "remove" =>
        /\ DOMAIN fs \subseteq DOMAIN pre
        /\ \A q \in Changed(pre, fs) : q \notin DOMAIN fs /\ OwnedLink(pre, q)
        /\ \A p \in ManagedEntries(pre) :
              (TargetKind(pre, p) = "link"
               /\ ~OwnedLink(pre, ResolveNoFollow(pre, Target(p))))
              => /\ TargetKind(fs, p) = "link"
                 /\ ReadLink(fs, Target(p)) = ReadLink(pre, Target(p))

\* an unlink removed a symlink of Group1 and left a foreign symlink at another
\* target of Group1 in place
C1_Witness ==
    /\ last.op = "remove"
    /\ Changed(pre, fs) # {}
    /\ \E p \in GroupEntries(pre, "Group1") :
          /\ TargetKind(pre, p) = "link"
          /\ ReadLink(pre, Target(p)) \notin ManagedEntries(pre)
          /\ TargetKind(fs, p) = "link"

(* C2: link without force and without adopt leaves every entry that existed   *)
(* before the call as it was; all it does is create symlinks, each holding    *)
(* the path of a managed entry, at that entry's target, which did not exist.  *)
C2_LinkFrame ==
    (last.op = "add" /\ ~last.force /\ ~last.adopt) =>
        /\ \A q \in DOMAIN pre : q \in DOMAIN fs /\ fs[q] = pre[q]
        /\ \A q \in DOMAIN fs \ DOMAIN pre :
              /\ fs[q].k = "link"
              /\ fs[q].to \in ManagedEntries(pre)
              /\ ~Exists(pre, Target(fs[q].to))
              /\ ResolveNoFollow(fs, Target(fs[q].to)) = q

\* a link created a symlink while another target of the group was occupied
C2_Witness ==
    /\ last.op = "add" /\ ~last.force /\ ~last.adopt
    /\ DOMAIN fs # DOMAIN pre
    /\ \E p \in GroupEntries(pre, "Group1") : TargetKind(pre, p) \in {"file", "link"}

\* the three maps of a classification
MapNames == {"symlinked", "not_symlinked", "not_owned"}

\* the managed path p is an entry of its group in the map m
RecordedIn(m, p) ==
    /\ p[Len(ConfigsDir) + 1] \in DOMAIN m
    /\ \E x \in m[p[Len(ConfigsDir) + 1]] : x.path = p

\* the maps of the classification c that hold p
MapsOf(c, p) == {n \in MapNames : RecordedIn(c[n], p)}

\* the target of p is a directory and not a symlink
TargetIsRealDir(f, p) == TargetKind(f, p) # "link" /\ IsDir(f, Target(p))

(* C3: after validate, in each of the three maps and in each group, no entry  *)
(* lies beneath another entry of the same group.                              *)
C3_Canonicalization ==
    \A n \in MapNames : \A g \in DOMAIN sym[n] : \A x, y \in sym[n][g] :
        ~Beneath(y.path, x.path)

\* the walk recorded an entry beneath another of the same group and map, and
\* a command has run since
C3_Witness ==
    /\ last.op # "none"
    /\ \E n \in MapNames : \E g \in DOMAIN sym.recorded[n] :
          \E x, y \in sym.recorded[n][g] : Beneath(y.path, x.path)

(* C4: after validate, no entry of not_symlinked lies at or beneath an entry  *)
(* of symlinked of the same group.                                            *)
C4_CrossMap ==
    \A g \in DOMAIN sym.not_symlinked \cap DOMAIN sym.symlinked :
        \A file2 \in sym.not_symlinked[g] : \A file1 \in sym.symlinked[g] :
            ~PathStartsWith(file2.path, file1.path)

\* a link created the symlink of a directory, and the validate that followed
\* recorded an entry beneath it as not symlinked
C4_Witness ==
    /\ last.op = "status" /\ prev.cmd.op = "add"
    /\ \E g \in DOMAIN sym.symlinked \cap DOMAIN sym.recorded.not_symlinked :
          \E file1 \in sym.symlinked[g] : \E file2 \in sym.recorded.not_symlinked[g] :
              /\ Beneath(file2.path, file1.path)
              /\ TargetKind(prev.pre, file1.path) = "none"

(* C7, as stated: every entry beneath a group directory is recorded in        *)
(* exactly one of the three maps.                                             *)
C7_ExactlyOne ==
    \A p \in ManagedEntries(pre) : Cardinality(MapsOf(sym.recorded, p)) = 1

(* C7, amended: the walk records every entry beneath a group directory in at  *)
(* most one of the three maps, and in exactly one unless the target of the    *)
(* entry is a directory that is not a symlink: that entry is in no map.       *)
C7_AtMostOne ==
    \A p \in ManagedEntries(pre) :
        Cardinality(MapsOf(sym.recorded, p)) = IF TargetIsRealDir(pre, p) THEN 0 ELSE 1

\* a validate met a directory whose target is a directory, an entry beneath it
\* and a foreign symlink
C7_Witness ==
    /\ last.op = "status"
    /\ \E p \in ManagedEntries(pre) : TargetIsRealDir(pre, p)
    /\ \E p \in ManagedEntries(pre) : MapsOf(sym.recorded, p) = {"not_owned"}
    /\ \E p \in ManagedEntries(pre) : MapsOf(sym.recorded, p) = {"not_symlinked"}

(* C8: the walk records an entry f with target t as symlinked when t is a     *)
(* symlink whose value is the path of f, as not owned when t is a symlink     *)
(* with another value, in no map when t is a directory and not a symlink, as  *)
(* not symlinked otherwise.                                                   *)
C8_Classification ==
    \A p \in ManagedEntries(pre) :
        MapsOf(sym.recorded, p) =
            CASE TargetKind(pre, p) = "link" /\ pre[ResolveNoFollow(pre, Target(p))].to = p
                    -> {"symlinked"}
              [] TargetKind(pre, p) = "link" /\ pre[ResolveNoFollow(pre, Target(p))].to # p
                    -> {"not_owned"}
              [] TargetKind(pre, p) = "dir" -> {}
              [] OTHER -> {"not_symlinked"}

\* a validate met each of the four cases
C8_Witness ==
    /\ last.op = "status"
    /\ \E p \in ManagedEntries(pre) : MapsOf(sym.recorded, p) = {"symlinked"}
    /\ \E p \in ManagedEntries(pre) :
          TargetKind(pre, p) = "link" /\ MapsOf(sym.recorded, p) = {"not_owned"}
    /\ \E p \in ManagedEntries(pre) :
          TargetKind(pre, p) = "dir" /\ MapsOf(sym.recorded, p) = {}
    /\ \E p \in ManagedEntries(pre) :
          TargetKind(pre, p) \in {"none", "file"} /\ MapsOf(sym.recorded, p) = {"not_symlinked"}

\* the part of the filesystem beneath (or not beneath) the dotfiles directory
ManagedTree(f) == [q \in {r \in DOMAIN f : PathStartsWith(r, DotfilesDir)} |-> f[q]]
HomeTree(f) == [q \in {r \in DOMAIN f : ~PathStartsWith(r, DotfilesDir)} |-> f[q]]

\* no target of an entry of group g is there
NoConflicts(f, g) == \A p \in GroupEntries(f, g) : TargetKind(f, p) = "none"

\* link(Group1) ran from a state without conflicts and unlink(Group1) ran next
LinkedThenUnlinked ==
    /\ last.op = "remove" /\ last.groups = <<"Group1">>
    /\ prev.cmd.op = "add" /\ prev.cmd.groups = <<"Group1">>
    /\ ~prev.cmd.force /\ ~prev.cmd.adopt
    /\ GroupEntries(prev.pre, "Group1") # {}
    /\ NoConflicts(prev.pre, "Group1")

(* C5: when no target of group G exists, link(G) followed by unlink(G) leaves *)
(* the home directory as it was before the link and the managed tree          *)
(* untouched, and a validate then has G among the keys of not_symlinked.      *)
C5_RoundTrip ==
    LinkedThenUnlinked =>
        /\ HomeTree(fs) = HomeTree(prev.pre)
        /\ ManagedTree(fs) = ManagedTree(prev.pre)
        /\ \A ord \in Orders : "Group1" \in DOMAIN validate(fs, ord).not_symlinked

\* the value symlink_file returns for an existing target
AlreadyExists(p) == [file |-> p, ret |-> "Err", why |-> "exists"]

\* link(Group1) ran twice in a row
LinkedTwice ==
    /\ last.op = "add" /\ last.groups = <<"Group1">> /\ ~last.force /\ ~last.adopt
    /\ prev.cmd.op = "add" /\ prev.cmd.groups = <<"Group1">>
    /\ ~prev.cmd.force /\ ~prev.cmd.adopt

(* C6, as stated: the second of two link(G) in a row meets an existing target *)
(* at every file of G, and leaves the filesystem as the first left it.        *)
C6_Idempotence ==
    LinkedTwice =>
        /\ \A p \in GroupEntries(pre, "Group1") : AlreadyExists(p) \in last.outcomes
        /\ fs = pre

(* C6, amended: the second of two link(G) in a row leaves the filesystem as   *)
(* the first left it and creates no symlink; it meets an existing target at   *)
(* every file it visits whose target exists, and visits no file when G is no  *)
(* longer a key of not_symlinked.                                             *)
C6_SecondLinkChangesNothing ==
    LinkedTwice =>
        /\ fs = pre
        /\ \A o \in last.outcomes :
              /\ o.why # "created"
              /\ Exists(pre, Target(o.file)) => o = AlreadyExists(o.file)
        /\ "Group1" \notin DOMAIN sym.not_symlinked => last.outcomes = {}

\* the first link created symlinks and left the group partly pending, the
\* second met existing targets
C6_Witness ==
    /\ LinkedTwice
    /\ prev.pre # pre
    /\ \E o \in last.outcomes : o = AlreadyExists(o.file)

\* the first link linked every file of the group, the second visited none
C6_WitnessLinked ==
    /\ LinkedTwice
    /\ prev.pre # pre
    /\ "Group1" \in DOMAIN sym.symlinked
    /\ last.outcomes = {}

\* no entry of another group has the target of an entry of group g
Unshared(f, g) ==
    \A p \in GroupEntries(f, g) : \A q \in ManagedEntries(f) \ GroupEntries(f, g) :
        Target(q) # Target(p)

\* the group Group1 holds a/x, a/y and b, none of its targets is there, and
\* link(Group1) ran
CollapseCase ==
    /\ last.op = "add" /\ last.groups = <<"Group1">> /\ ~last.force /\ ~last.adopt
    /\ (G1 \o <<"a", "x">>) \in DOMAIN pre
    /\ NoConflicts(pre, "Group1")

\* link created the symlinks of a and b and nothing else, and a validate has
\* a and b as the symlinked entries of Group1, a/x and a/y in no map
Collapsed ==
    /\ Changed(pre, fs) = {HomeDir \o <<"a">>, HomeDir \o <<"b">>}
    /\ fs[HomeDir \o <<"a">>] = LinkNode(G1 \o <<"a">>)
    /\ fs[HomeDir \o <<"b">>] = LinkNode(G1 \o <<"b">>)
    /\ \A ord \in Orders :
          /\ "Group1" \in DOMAIN validate(fs, ord).symlinked
          /\ validate(fs, ord).symlinked["Group1"] = {Dotfile(G1 \o <<"a">>), Dotfile(G1 \o <<"b">>)}
          /\ MapsOf(validate(fs, ord), G1 \o <<"a", "x">>) = {}
          /\ MapsOf(validate(fs, ord), G1 \o <<"a", "y">>) = {}

Unoccupied(f, g) ==
    \A p \in GroupEntries(f, g) :
        \/ TargetKind(f, p) = "none"
        \/ TargetKind(f, p) = "dir" /\ f[p].k = "dir"
        \/ TargetKind(f, p) = "link" /\ ReadLink(f, Target(p)) = p

\* Group1 exists, none of its targets holds a foreign entry, it is not a key
\* of symlinked, and add_cmd([Group1]) ran
AddCase ==
    /\ last.op = "add" /\ last.groups = <<"Group1">> /\ ~last.force /\ ~last.adopt
    /\ GroupEntries(pre, "Group1") # {}
    /\ Unoccupied(pre, "Group1")
    /\ "Group1" \notin DOMAIN sym.symlinked

\* a validate has Group1 as a key of symlinked and not of not_symlinked
AddedGroup ==
    \A ord \in Orders :
        /\ "Group1" \in DOMAIN validate(fs, ord).symlinked
        /\ "Group1" \notin DOMAIN validate(fs, ord).not_symlinked

-----------------------------------------------------------------------------
(* The target filter on its own: is_valid_target over group names and          *)
(* platforms (dotfiles.rs 131-150, and the test detect_valid_targets)          *)

\* std::env::consts::OS and ::FAMILY of some builds
TargetPlatforms ==
    {[os |-> "linux", family |-> "unix"], [os |-> "macos", family |-> "unix"],
     [os |-> "freebsd", family |-> "unix"], [os |-> "solaris", family |-> "unix"],
     [os |-> "windows", family |-> "windows"]}

TargetGroupNames ==
    {"shell", "shell_unix", "shell_windows", "shell_linux", "shell_macos", "shell_ios",
     "shell_android", "shell_freebsd", "shell_dragonfly", "shell_openbsd",
     "shell_netbsd", "shell_none", "shell_solaris", "group_something",
     "some_random_group", "_unix", "unix", "shell_unix_", "shell_windows_unix",
     "shell_unix_windows", "shell_unixx", "shellunix", "shell_Unix", "group_windows",
     "group_linux", "group_unix"}

\* new_group of the test: a Dotfile with a name only
NamedGroup(name) == [path |-> <<>>, group_path |-> <<>>, group_name |-> name]

InitTarget ==
    /\ platform \in TargetPlatforms
    /\ fs = EmptyFs /\ pre = EmptyFs
    /\ sym = NoHandler
    /\ last = NoCmd
    /\ prev = [cmd |-> NoCmd, pre |-> EmptyFs]
    /\ ncmds = 0

IsValidTargetCall ==
    /\ \E name \in TargetGroupNames :
          last' = [NoCmd EXCEPT !.op = "is_valid_target", !.groups = <<name>>,
                                !.exit = IF is_valid_target(platform, NamedGroup(name))
                                            THEN "true" ELSE "false"]
    /\ UNCHANGED <<fs, platform, sym, pre, prev, ncmds>>

NextTarget == IsValidTargetCall

SpecTarget == InitTarget /\ [][NextTarget]_vars

\* the position of the last '_' of s at or before i, 0 when there is none
RECURSIVE LastUnderscore(_, _)
LastUnderscore(s, i) ==
    IF i = 0 THEN 0
    ELSE IF SubSeq(s, i, i) = "_" THEN i
    ELSE LastUnderscore(s, i - 1)

\* what follows the last '_' of s
AfterUnderscore(s, i) == SubSeq(s, i + 1, Len(s))

\* the recognized suffix tokens, without their '_'
TokenNames ==
    {"windows", "macos", "ios", "linux", "android", "freebsd", "dragonfly", "openbsd",
     "netbsd", "none", "unix"}

\* name ends with '_' and a recognized token
Recognized(name) ==
    /\ LastUnderscore(name, Len(name)) > 0
    /\ AfterUnderscore(name, LastUnderscore(name, Len(name))) \in TokenNames

\* name ends with '_' and the OS or the OS family of plat
Matches(name, plat) ==
    /\ LastUnderscore(name, Len(name)) > 0
    /\ AfterUnderscore(name, LastUnderscore(name, Len(name))) \in {plat.os, plat.family}

(* C11: is_valid_target is true for a name that ends with no recognized       *)
(* token; for a name that ends with one it is true exactly when the name ends *)
(* with '_' and the current OS or '_' and the current OS family.              *)
C11_TargetFilter ==
    last.op = "is_valid_target" =>
        ((last.exit = "true") <=>
            (Recognized(last.groups[1]) => Matches(last.groups[1], platform)))

\* shell_unix was found to apply on macos, through the OS family
C11_Witness ==
    /\ last.op = "is_valid_target" /\ last.groups = <<"shell_unix">>
    /\ platform.os = "macos" /\ last.exit = "true"

-----------------------------------------------------------------------------
(* Conditional groups as one unit with their base group *)

\* the entries of group g in the map m
EntriesOf(m, g) == IF g \in DOMAIN m THEN m[g] ELSE {}

\* the target of p holds the symlink of p
LinkedAt(f, p) == TargetKind(f, p) = "link" /\ ReadLink(f, Target(p)) = p

\* nothing is at the target of p, and the directory it goes into is there
Free(f, p) == TargetKind(f, p) = "none" /\ IsDir(f, Parent(Target(p)))

\* link(Group1) linked the not symlinked entries of Group1_unix whose target
\* was free
LinkedVariant ==
    \A x \in EntriesOf(sym.not_symlinked, "Group1_unix") :
        Free(pre, x.path) => LinkedAt(fs, x.path)

\* unlink(Group1) removed the symlinks of the symlinked entries of Group1_unix
UnlinkedVariant ==
    \A x \in EntriesOf(sym.symlinked, "Group1_unix") : TargetKind(fs, x.path) = "none"

LinkNamed == last.op = "add" /\ last.groups = <<"Group1">> /\ ~last.force /\ ~last.adopt
UnlinkNamed == last.op = "remove" /\ last.groups = <<"Group1">>

-----------------------------------------------------------------------------
(* get_related_conditional_groups on its own, over handlers and platforms      *)

RelatedNames == <<"Group1", "Group1_unix", "Group1_windows", "Group10_unix", "Group2_unix">>

RelatedOrders == {RelatedNames, Reverse(RelatedNames)}

RelatedPlatforms == {[os |-> "linux", family |-> "unix"],
                     [os |-> "windows", family |-> "windows"]}

\* a cache with one file, the group directory's, for each group of K
CacheOf(K) == [g \in K |-> {NamedGroup(g)}]

\* a handler with the groups of K symlinked and the others not symlinked
HandlerOf(K) ==
    [NoHandler EXCEPT !.symlinked = CacheOf(K),
                      !.not_symlinked = CacheOf(Range(RelatedNames) \ K)]

NoCall == [op |-> "none", base |-> "", want_linked |-> FALSE, some |-> FALSE,
           groups |-> <<>>]

InitRelated ==
    /\ platform \in RelatedPlatforms
    /\ \E K \in SUBSET Range(RelatedNames) : sym = HandlerOf(K)
    /\ fs = EmptyFs /\ pre = EmptyFs
    /\ last = NoCall
    /\ prev = [cmd |-> NoCall, pre |-> EmptyFs]
    /\ ncmds = 0

Returned(base, want_linked, r) ==
    [op |-> "related", base |-> base, want_linked |-> want_linked, some |-> r.some,
     groups |-> r.groups]

RelatedCall ==
    /\ \E base \in Range(RelatedNames), want_linked \in BOOLEAN, hord \in RelatedOrders :
          last' = Returned(base, want_linked,
                           get_related_conditional_groups(sym, platform, base,
                                                          want_linked, hord))
    /\ UNCHANGED <<fs, platform, sym, pre, prev, ncmds>>

NextRelated == RelatedCall

SpecRelated == InitRelated /\ [][NextRelated]_vars

\* the keys of the map a call selects
SelectedKeys(want_linked) ==
    IF want_linked THEN DOMAIN sym.symlinked ELSE DOMAIN sym.not_symlinked

\* the keys a call is to return before the base group
VariantKeys(base, want_linked) ==
    {k \in SelectedKeys(want_linked) :
        StrStartsWith(k, base) /\ Recognized(k) /\ Matches(k, platform)}

\* q without its last element
Front(q) == SubSeq(q, 1, Len(q) - 1)

(* C14: get_related_conditional_groups returns None exactly when the base     *)
(* group is not a key of the selected map; otherwise a list that ends with    *)
(* the base group, and before it holds, once each, exactly the keys of the    *)
(* selected map that start with the base name, end with a recognized suffix   *)
(* and apply to the platform.                                                 *)
C14_Related ==
    last.op = "related" =>
        /\ ~last.some <=> last.base \notin SelectedKeys(last.want_linked)
        /\ last.some =>
              /\ last.groups # <<>>
              /\ last.groups[Len(last.groups)] = last.base
              /\ Range(Front(last.groups)) = VariantKeys(last.base, last.want_linked)
              /\ Len(last.groups) = Cardinality(VariantKeys(last.base, last.want_linked)) + 1

\* a call on Group1 returned a conditional group and left another out
C14_Witness ==
    /\ last.op = "related" /\ last.some /\ last.base = "Group1"
    /\ Len(last.groups) >= 2
    /\ "Group1_windows" \in SelectedKeys(last.want_linked)
    /\ "Group1_windows" \notin Range(last.groups)

-----------------------------------------------------------------------------
(* One command with its options: groups named or the wildcard, an exclude     *)
(* list, force, adopt, with a conditional group of another platform around    *)

\* the commands one behaviour of SpecOpt runs
MaxOptCmds == 1

OptNames == <<"Group1", "Group1_unix", "Group1_windows", "a", "b", "w", "x", "y">>

OptOrders == {OptNames, Reverse(OptNames)}

G1w == ConfigsDir \o <<"Group1_windows">>

OptUnixTrees == {EmptyFs, Tree(G1u, {<<"a", "y">>})}

OptWindowsTrees == {EmptyFs, Tree(G1w, {<<"w">>})}

\* what the home directory holds at b: nothing, a file, a symlink to a file
\* elsewhere
OptHomeB ==
    {EmptyFs, At(HomeDir \o <<"b">>, FileNode),
     At(HomeDir \o <<"b">>, LinkNode(Elsewhere \o <<"x">>))}

\* what the home directory holds at w: nothing or a file
OptHomeW == {EmptyFs, At(HomeDir \o <<"w">>, FileNode)}

OptFs == {BaseFs @@ m1 @@ m2 @@ m3 @@ hb @@ hw :
             m1 \in Group1Trees, m2 \in OptUnixTrees, m3 \in OptWindowsTrees,
             hb \in OptHomeB, hw \in OptHomeW}

OptGroupLists ==
    {<<"Group1">>, <<"Group1_windows">>, <<"*">>, <<"Group1", "Group1_windows">>}

OptExcludeLists == {<<>>, <<"Group1_unix">>, <<"Group1_windows">>}

\* force and adopt as the command line gives them
OptModes == {[force |-> FALSE, adopt |-> FALSE], [force |-> TRUE, adopt |-> FALSE],
             [force |-> FALSE, adopt |-> TRUE]}

InitOpt ==
    /\ fs \in OptFs
    /\ platform \in Platforms
    /\ \E ord \in OptOrders : sym = try_new(fs, ord)
    /\ last = NoCmd
    /\ pre = fs
    /\ prev = [cmd |-> NoCmd, pre |-> fs]
    /\ ncmds = 0

\* the arguments of a command
Args(op, groups, exclude, mode) ==
    [NoCmd EXCEPT !.op = op, !.groups = groups, !.exclude = exclude,
                  !.force = mode.force, !.adopt = mode.adopt]

\* tuckr add <groups> [-e <exclude>] [--force] [--adopt]
LinkOpt ==
    /\ ncmds < MaxOptCmds
    /\ \E groups \in OptGroupLists, exclude \in OptExcludeLists, mode \in OptModes,
          ord \in OptOrders, hord \in OptOrders :
          Record(Args("add", groups, exclude, mode),
                 RunCmd(fs, platform, Args("add", groups, exclude, mode), ord, hord))

\* tuckr rm <groups> [-e <exclude>]
UnlinkOpt ==
    /\ ncmds < MaxOptCmds
    /\ \E groups \in OptGroupLists, exclude \in OptExcludeLists,
          ord \in OptOrders, hord \in OptOrders :
          Record(Args("remove", groups, exclude, [force |-> FALSE, adopt |-> FALSE]),
                 RunCmd(fs, platform,
                        Args("remove", groups, exclude, [force |-> FALSE, adopt |-> FALSE]),
                        ord, hord))

NextOpt == LinkOpt \/ UnlinkOpt

SpecOpt == InitOpt /\ [][NextOpt]_vars

\* the group the managed path p lies in
GroupOf(p) == p[Len(ConfigsDir) + 1]

\* the group g applies to the platform
Applies(g) == Recognized(g) => Matches(g, platform)

\* the symlinks a command created that hold the path of a managed entry
NewLinks == {q \in DOMAIN fs \ DOMAIN pre :
                fs[q].k = "link" /\ fs[q].to \in ManagedEntries(pre)}

(* C12: no link invocation creates a symlink for a file of a conditional      *)
(* group whose suffix matches neither the OS nor the OS family.               *)
C12_OtherPlatformExcluded ==
    last.op = "add" => \A q \in NewLinks : Applies(GroupOf(fs[q].to))

-----------------------------------------------------------------------------
(* Commands on the wildcard, with exclude lists                               *)

WildFs == {BaseFs @@ m1 @@ m2 @@ m3 @@ hb :
              m1 \in {Tree(G1, {<<"b">>}), Tree(G1, {<<"a", "x">>, <<"b">>})},
              m2 \in OptUnixTrees, m3 \in OptWindowsTrees,
              hb \in {EmptyFs, At(HomeDir \o <<"b">>, FileNode)}}

InitWild ==
    /\ fs \in WildFs
    /\ platform \in Platforms
    /\ sym = try_new(fs, OptNames)
    /\ last = NoCmd
    /\ pre = fs
    /\ prev = [cmd |-> NoCmd, pre |-> fs]
    /\ ncmds = 0

\* tuckr add \* [-e <exclude>]
LinkWild ==
    /\ ncmds < MaxCmds
    /\ \E exclude \in OptExcludeLists, hord \in OptOrders :
          Record(Args("add", <<"*">>, exclude, [force |-> FALSE, adopt |-> FALSE]),
                 RunCmd(fs, platform,
                        Args("add", <<"*">>, exclude, [force |-> FALSE, adopt |-> FALSE]),
                        OptNames, hord))

\* tuckr rm \* [-e <exclude>]
UnlinkWild ==
    /\ ncmds < MaxCmds
    /\ \E exclude \in OptExcludeLists, hord \in OptOrders :
          Record(Args("remove", <<"*">>, exclude, [force |-> FALSE, adopt |-> FALSE]),
                 RunCmd(fs, platform,
                        Args("remove", <<"*">>, exclude, [force |-> FALSE, adopt |-> FALSE]),
                        OptNames, hord))

NextWild == LinkWild \/ UnlinkWild

SpecWild == InitWild /\ [][NextWild]_vars

\* the last command named the wildcard and reached the loop over the groups
Wildcard(op) == last.op = op /\ "*" \in Range(last.groups) /\ last.exit = "SUCCESS"

\* the keys of a map of the handler built before the last command
KeysBefore(map) == DOMAIN try_new(pre, OptNames)[map]

\* the groups the wildcard stands for: the keys of the map less the excluded
\* ones
Expansion(map) == KeysBefore(map) \ Range(last.exclude)

ExcludedEntries == UNION {GroupEntries(pre, g) : g \in Range(last.exclude)}

\* the target of the managed entry p is the target of no entry of a group that
\* is not excluded, nor above or beneath one
OwnTarget(p) ==
    \A q \in ManagedEntries(pre) \ ExcludedEntries :
        ~PathStartsWith(Target(p), Target(q)) /\ ~PathStartsWith(Target(q), Target(p))

\* what is at the target of p is in f as it is in g
SameTarget(f, g, p) ==
    /\ TargetKind(f, p) = TargetKind(g, p)
    /\ TargetKind(f, p) = "link" => ReadLink(f, Target(p)) = ReadLink(g, Target(p))

\* no symlink to an entry of an excluded group is created
C16_NoLinkForExcluded == \A q \in NewLinks : fs[q].to \notin ExcludedEntries

\* no target that only an excluded group has is created, deleted or replaced
C16_TargetsOfExcludedKept ==
    \A p \in ExcludedEntries : OwnTarget(p) => SameTarget(pre, fs, p)

(* C16: no link or unlink invocation, with or without force or adopt,         *)
(* creates, deletes or moves a home-directory target or a managed file of a   *)
(* group listed in the exclude list, also when the group is named as well.    *)
C16_ExcludedIgnored ==
    last.op \in {"add", "remove"} =>
       /\ C16_NoLinkForExcluded
       /\ C16_TargetsOfExcludedKept
       /\ \A p \in ExcludedEntries : p \in DOMAIN fs /\ fs[p] = pre[p]

\* the handler built before the last command
Before == try_new(pre, OptNames)

\* the entries of group g force is to free the target of: the Foreign ones and
\* the Pending ones whose target exists
Overlapping(g) ==
    {x.path : x \in EntriesOf(Before.not_owned, g)}
    \cup {x.path : x \in {y \in EntriesOf(Before.not_symlinked, g) : Exists(pre, Target(y.path))}}

(* C17: after a link with force, for every group the operation processed, the *)
(* target of every Foreign entry and of every Pending entry whose target      *)
(* existed is a symlink to the managed file.                                  *)
C17_Force ==
    last.op = "add" /\ last.force /\ last.exit = "SUCCESS" =>
       \A g \in Range(last.applied) : \A p \in Overlapping(g) : LinkedAt(fs, p)

\* the entries of group g link is to process: the Foreign and the Pending ones
Unlinked(g) ==
    {x.path : x \in EntriesOf(Before.not_owned, g) \cup EntriesOf(Before.not_symlinked, g)}

\* what was at the target of p is now at the managed path p
Adopted(p) ==
    /\ p \in DOMAIN fs
    /\ fs[p] = pre[ResolveNoFollow(pre, Target(p))]

(* C18: a link with adopt completes; for every processed entry whose target   *)
(* existed, what was at the target is moved to the managed path and the       *)
(* target is a symlink to the managed file; an entry whose target did not     *)
(* exist keeps its managed file and is linked.                                *)
C18_Adopt ==
    last.op = "add" /\ last.adopt /\ last.exit # "NoSetupFolder" =>
       /\ last.exit = "SUCCESS"
       /\ \A g \in Range(last.applied) : \A p \in Unlinked(g) :
             /\ LinkedAt(fs, p)
             /\ IF TargetKind(pre, p) # "none" THEN Adopted(p)
                ELSE p \in DOMAIN fs /\ fs[p] = pre[p]

-----------------------------------------------------------------------------
(* The dotfiles directory or its Configs missing, and directories of the      *)
(* managed tree that cannot be listed                                         *)

\* the managed tree: Group1 with a/x and b, with or without Group1_unix
TreeManaged == {BaseFs @@ Tree(G1, {<<"a", "x">>, <<"b">>}) @@ m2 : m2 \in OptUnixTrees}

\* the directory that cannot be listed: none, Group1/a, or Group1
TreeLocked == {EmptyFs, At(G1 \o <<"a">>, LockedDirNode), At(G1, LockedDirNode)}

\* no dotfiles directory; a dotfiles directory without Configs; the managed
\* trees
TreeFs ==
    {Without(BaseFs, DotfilesDir), Without(BaseFs, ConfigsDir)}
    \cup {l @@ m @@ hb : l \in TreeLocked, m \in TreeManaged, hb \in OptHomeB}

InitTree ==
    /\ fs \in TreeFs
    /\ platform \in Platforms
    /\ sym = NoHandler
    /\ last = NoCmd
    /\ pre = fs
    /\ prev = [cmd |-> NoCmd, pre |-> fs]
    /\ ncmds = 0

\* tuckr add <groups>
LinkTree ==
    /\ ncmds < MaxOptCmds
    /\ \E groups \in GroupLists, ord \in OptOrders, hord \in OptOrders :
          Record(Args("add", groups, <<>>, [force |-> FALSE, adopt |-> FALSE]),
                 RunCmd(fs, platform,
                        Args("add", groups, <<>>, [force |-> FALSE, adopt |-> FALSE]),
                        ord, hord))

\* tuckr rm <groups>
UnlinkTree ==
    /\ ncmds < MaxOptCmds
    /\ \E groups \in GroupLists, ord \in OptOrders, hord \in OptOrders :
          Record(Args("remove", groups, <<>>, [force |-> FALSE, adopt |-> FALSE]),
                 RunCmd(fs, platform,
                        Args("remove", groups, <<>>, [force |-> FALSE, adopt |-> FALSE]),
                        ord, hord))

\* tuckr status
StatusTree ==
    /\ ncmds < MaxOptCmds
    /\ \E ord \in OptOrders :
          Record([NoCmd EXCEPT !.op = "status"], StatusResult(try_new(fs, ord), fs))

NextTree == LinkTree \/ UnlinkTree \/ StatusTree

SpecTree == InitTree /\ [][NextTree]_vars

(* C19: when the Configs root is absent (no dotfiles directory, or one        *)
(* without Configs), try_new returns an error value and not the maps, without *)
(* panicking and without changing the filesystem, and link and unlink fail at *)
(* once.                                                                      *)
C19_NoManagedTree ==
    last.op # "none" /\ ~Exists(pre, ConfigsDir) =>
       /\ sym.error /\ ~sym.panic
       /\ fs = pre
       /\ last.exit \notin {"SUCCESS", "panic"}
       /\ last.applied = <<>>

\* the managed entries the walk can reach without listing a directory that
\* cannot be listed
Reachable(f) ==
    {p \in ManagedEntries(f) :
        \A i \in Len(ConfigsDir)..(Len(p) - 1) : f[SubSeq(p, 1, i)] # LockedDirNode}

(* C20: a directory that cannot be listed does not abort the classification:  *)
(* try_new returns the maps, and every managed entry that can be reached      *)
(* without listing such a directory is classified.                            *)
C20_UnreadableSkipped ==
    last.op = "status" /\ Exists(pre, ConfigsDir) =>
       /\ ~sym.panic
       /\ \A p \in Reachable(fs) :
             MapsOf(sym.recorded, p) # {} \/ TargetIsRealDir(fs, p)

-----------------------------------------------------------------------------
(* The value symlink_file returns                                             *)

\* the last command created a symlink holding the managed path p
Created(p) ==
    \E q \in DOMAIN fs : fs[q] = LinkNode(p) /\ (q \notin DOMAIN pre \/ pre[q] # fs[q])

(* C21: symlink_file returns the success value for a file exactly when it     *)
(* created the symlink for it, and the failure value exactly when it did not  *)
(* (the target existed or the symlink call failed).                           *)
C21_Outcomes ==
    last.op = "add" => \A o \in last.outcomes : (o.ret = "Ok") <=> Created(o.file)

-----------------------------------------------------------------------------
(* Commands naming a group that Configs does not hold                         *)

\* Group1 with b; with or without a regular file x directly under Configs
NamedFs ==
    {BaseFs @@ Tree(G1, {<<"b">>}) @@ cx @@ hb :
        cx \in {EmptyFs, At(ConfigsDir \o <<"x">>, FileNode)}, hb \in OptHomeB}

\* y is no entry of Configs
NamedGroupLists ==
    {<<"Group1">>, <<"y">>, <<"x">>, <<"Group1", "y">>, <<"y", "Group1">>,
     <<"Group1", "x">>, <<"*", "y">>}

InitNamed ==
    /\ fs \in NamedFs
    /\ platform \in Platforms
    /\ \E ord \in OptOrders : sym = try_new(fs, ord)
    /\ last = NoCmd
    /\ pre = fs
    /\ prev = [cmd |-> NoCmd, pre |-> fs]
    /\ ncmds = 0

\* tuckr add <groups> [--force] [--adopt]
LinkNamedGroups ==
    /\ ncmds < MaxOptCmds
    /\ \E groups \in NamedGroupLists, mode \in OptModes, ord \in OptOrders :
          Record(Args("add", groups, <<>>, mode),
                 RunCmd(fs, platform, Args("add", groups, <<>>, mode), ord, ord))

\* tuckr rm <groups>
UnlinkNamedGroups ==
    /\ ncmds < MaxOptCmds
    /\ \E groups \in NamedGroupLists, ord \in OptOrders :
          Record(Args("remove", groups, <<>>, [force |-> FALSE, adopt |-> FALSE]),
                 RunCmd(fs, platform,
                        Args("remove", groups, <<>>, [force |-> FALSE, adopt |-> FALSE]),
                        ord, ord))

NextNamed == LinkNamedGroups \/ UnlinkNamedGroups

SpecNamed == InitNamed /\ [][NextNamed]_vars

\* the groups the last command named that have no directory under Configs
WithoutDirectory ==
    {g \in Range(last.groups) \ {"*"} : ~IsDir(pre, ConfigsDir \o <<g>>)}

(* C22: when a name given to link or unlink, other than the wildcard, has no  *)
(* directory under Configs, the command returns an error and changes nothing  *)
(* in the filesystem.                                                         *)
C22_MissingGroupFatal ==
    last.op \in {"add", "remove"} /\ WithoutDirectory # {} =>
       /\ last.exit = "NoSetupFolder"
       /\ fs = pre
       /\ last.applied = <<>>

-----------------------------------------------------------------------------
(* Dotfile::try_from and Dotfile::to_target_path on paths                     *)

\* the longest path below its start that is handed to try_from
MaxBelow == 2

\* where the paths start: the managed roots, their parents, and directories
\* that only look like them
PathStarts ==
    {ConfigsDir, HooksDir, SecretsDir, DotfilesDir, HomeDir, Elsewhere, <<>>,
     HomeDir \o <<"Configs">>, DotfilesDir \o <<"Configs2">>}

PathNames == {"Group1", "Root", "Configs", "a", ".."}

\* the sequences over S of length n
RECURSIVE SeqsOf(_, _)
SeqsOf(S, n) ==
    IF n = 0 THEN {<<>>}
    ELSE {Append(q, e) : q \in SeqsOf(S, n - 1), e \in S}

TryFromPaths ==
    {st \o below : st \in PathStarts, below \in UNION {SeqsOf(PathNames, n) : n \in 0..MaxBelow}}

\* the managed files to_target_path is called on: Configs/<group>/<rel>
TargetGroups == {"Root", "Zsh", "Rootx", "Root_unix", "root"}

TargetFiles ==
    {ConfigsDir \o <<g>> \o rel :
        g \in TargetGroups, rel \in UNION {SeqsOf({"a", "b", "Root"}, n) : n \in 1..MaxBelow}}

NoDotfileCall == [op |-> "none", path |-> <<>>, ok |-> FALSE,
                  dotfile |-> MkDotfile(<<>>, <<"">>), target |-> <<>>]

InitDotfile ==
    /\ platform \in Platforms
    /\ fs = EmptyFs /\ pre = EmptyFs
    /\ sym = NoHandler
    /\ last = NoDotfileCall
    /\ prev = [cmd |-> NoCmd, pre |-> EmptyFs]
    /\ ncmds = 0

\* Dotfile::try_from(path)
TryFromCall ==
    /\ \E path \in TryFromPaths :
          last' = [NoDotfileCall EXCEPT !.op = "try_from", !.path = path,
                                        !.ok = try_from(path).ok,
                                        !.dotfile = try_from(path).dotfile]
    /\ UNCHANGED <<fs, platform, sym, pre, prev, ncmds>>

\* Dotfile::try_from(path).unwrap().to_target_path()
ToTargetPathCall ==
    /\ \E path \in TargetFiles :
          last' = [NoDotfileCall EXCEPT !.op = "to_target_path", !.path = path,
                                        !.ok = try_from(path).ok,
                                        !.dotfile = try_from(path).dotfile,
                                        !.target = to_target_path(try_from(path).dotfile)]
    /\ UNCHANGED <<fs, platform, sym, pre, prev, ncmds>>

NextDotfile == TryFromCall \/ ToTargetPathCall

SpecDotfile == InitDotfile /\ [][NextDotfile]_vars

ManagedRoots == {ConfigsDir, HooksDir, SecretsDir}

\* the managed root p is equal to or beneath
RootsOf(p) == {r \in ManagedRoots : PathStartsWith(p, r)}

\* the Dotfile of the path p beneath root r: the group is the first segment
\* below r
IdentityUnder(d, p, r) ==
    /\ d.path = p
    /\ IF p = r THEN d.group_path = r
       ELSE d.group_path = r \o <<p[Len(r) + 1]>> /\ d.group_name = p[Len(r) + 1]

\* every constructed Dotfile: the path is the group path or beneath it, and
\* the parent of the group path is a managed root, unless it is one itself
WellFormed(d) ==
    /\ PathStartsWith(d.path, d.group_path)
    /\ d.group_path \in ManagedRoots \/ Parent(d.group_path) \in ManagedRoots

(* C23: try_from(path) is an error when path lies under none of the managed   *)
(* roots; under a root it returns the Dotfile whose group_path is the root    *)
(* when path is the root, and else the root joined with the first segment     *)
(* below it, that segment being group_name.                                   *)
C23_Identity ==
    last.op = "try_from" =>
       IF RootsOf(last.path) = {} THEN ~last.ok
       ELSE /\ last.ok
            /\ \A r \in RootsOf(last.path) : IdentityUnder(last.dotfile, last.path, r)
            /\ WellFormed(last.dotfile)

\* the first segment of p below its root is a name, not ".."
NormalBelow(p) == \A r \in RootsOf(p) : p = r \/ p[Len(r) + 1] # ".."

(* C23 as it holds: the same, for a path whose first segment below the root   *)
(* is a name; when that segment is ".." try_from is an error.                 *)
C23_IdentityOfNormal ==
    last.op = "try_from" =>
       IF RootsOf(last.path) = {} \/ ~NormalBelow(last.path) THEN ~last.ok
       ELSE /\ last.ok
            /\ \A r \in RootsOf(last.path) : IdentityUnder(last.dotfile, last.path, r)
            /\ WellFormed(last.dotfile)

\* a path two segments below Hooks was given its group
C23_Witness ==
    /\ last.op = "try_from" /\ last.ok
    /\ last.path = HooksDir \o <<"Group1", "a">>
    /\ last.dotfile.group_name = "Group1"

\* the path of p below Configs/<group>
RelOf(p) == SubSeq(p, Len(ConfigsDir) + 2, Len(p))

\* the root of the filesystem
FsRoot == <<>>

(* C24: for a managed file Configs/<group>/<rel>, to_target_path is           *)
(* <home>/<rel>, except for the group named exactly Root, where it is         *)
(* <filesystem root>/<rel>; no other group targets the filesystem root.       *)
C24_TargetPath ==
    last.op = "to_target_path" =>
       last.target = (IF last.path[Len(ConfigsDir) + 1] = "Root" THEN FsRoot ELSE HomeDir)
                     \o RelOf(last.path)

\* a file of the group Root was sent to the filesystem root
C24_Witness ==
    /\ last.op = "to_target_path"
    /\ last.path = ConfigsDir \o <<"Root", "a", "b">>
    /\ last.target = <<"a", "b">>

-----------------------------------------------------------------------------
(* Hooks (hooks.rs): set_cmd and its deployment stages, one step at a time    *)

\* the set commands one behaviour runs
MaxSets == 1

\* DeployStages::next with PreHook left out
DeployNextWithoutPre(step) ==
    CASE step = "Initialize" -> [step |-> "Symlink", item |-> "Symlink"]
      [] step = "PreHook" -> [step |-> "Symlink", item |-> "Symlink"]
      [] step = "Symlink" -> [step |-> "PostHook", item |-> "PostHook"]
      [] step = "PostHook" -> [step |-> "PostHook", item |-> "None"]

\* impl Iterator for DeployStages (hooks.rs 49-69): the state after next() and
\* the item it returns
DeployNext(step) ==
    CASE step = "Initialize" -> [step |-> "PreHook", item |-> "PreHook"]
      [] step = "PreHook" -> [step |-> "Symlink", item |-> "Symlink"]
      [] step = "Symlink" -> [step |-> "PostHook", item |-> "PostHook"]
      [] step = "PostHook" -> [step |-> "PostHook", item |-> "None"]

\* every name a directory of this part can hold, in one order of listing
HookNames == <<"Group1", "Group1_unix", "Group1_windows", "b", "post.sh", "pre.sh">>

HookOrders == {HookNames, Reverse(HookNames)}

\* the scripts of a group under Hooks
HookTree(g, scripts) == Tree(HooksDir \o <<g>>, {<<x>> : x \in scripts})

\* Configs holds Group1 with b; Hooks holds Group1 with both scripts and, or
\* not, Group1_unix with a pre script and Group1_windows with a post script
HookFs ==
    {BaseFs @@ Tree(G1, {<<"b">>}) @@ HookTree("Group1", {"pre.sh", "post.sh"}) @@ hu @@ hw @@ hb :
        hu \in {EmptyFs, HookTree("Group1_unix", {"pre.sh"})},
        hw \in {EmptyFs, HookTree("Group1_windows", {"post.sh"})},
        hb \in {EmptyFs, At(HomeDir \o <<"b">>, FileNode)}}

HookGroupLists ==
    {<<"Group1">>, <<"Group1", "Group1_unix">>, <<"Group1_unix", "Group1">>, <<"*">>,
     <<"Group1_windows", "Group1">>}

\* set_cmd before it starts
NoSet == [op |-> "none", pc |-> "idle", groups |-> <<>>, targets |-> <<>>, i |-> 0,
          group |-> "", step |-> "Initialize", item |-> "Initialize", trace |-> <<>>,
          exit |-> "none"]

InitHooks ==
    /\ fs \in HookFs
    /\ platform \in Platforms
    /\ sym = NoHandler
    /\ last = NoSet
    /\ pre = fs
    /\ prev = [cmd |-> NoCmd, pre |-> fs]
    /\ ncmds = 0

\* set_cmd returned
Returned_set(c, exit) == [c EXCEPT !.pc = "done", !.exit = exit]

\* dotfiles::check_invalid_groups(DotfileType::Hooks, groups)
check_invalid_hooks(f, groups) ==
    SelectSeq(groups, LAMBDA group : ~Exists(f, HooksDir \o <<group>>) /\ group # "*")

\* the last component of each path of a sequence
FileNames(paths) == [i \in DOMAIN paths |-> paths[i][Len(paths[i])]]

\* set_cmd up to its loops (hooks.rs 131-137, 180-188): the groups it will go
\* through are the folders of Hooks under the wildcard, else the groups given
SetStart(f, groups, ord) ==
    IF check_invalid_hooks(f, groups) # <<>>
       THEN Returned_set([NoSet EXCEPT !.op = "set_cmd", !.groups = groups], "NoSuchFileOrDir")
    ELSE IF ~Exists(f, DotfilesDir)
       THEN Returned_set([NoSet EXCEPT !.op = "set_cmd", !.groups = groups], "NoSetupFolder")
    ELSE [NoSet EXCEPT !.op = "set_cmd", !.groups = groups, !.pc = "loop", !.i = 1,
                       !.targets = IF "*" \in Range(groups)
                                      THEN FileNames(ReadDirSeq(f, HooksDir, ord))
                                      ELSE groups]

\* tuckr set <groups>: the call of set_cmd
SetCmdStart ==
    /\ last.pc \in {"idle", "done"}
    /\ ncmds < MaxSets
    /\ \E groups \in HookGroupLists, ord \in HookOrders : last' = SetStart(fs, groups, ord)
    /\ pre' = fs
    /\ ncmds' = ncmds + 1
    /\ UNCHANGED <<fs, platform, sym, prev>>

\* the head of a loop of set_cmd (hooks.rs 189-195, 205-211) and the test that
\* opens run_deploy_steps (hooks.rs 151-154)
GroupStart(c, plat, d) ==
    IF ~d.ok THEN Returned_set(c, "FAILURE")
    ELSE IF ~is_valid_target(plat, d.dotfile) THEN Returned_set(c, "FAILURE")
    ELSE [c EXCEPT !.pc = "steps", !.group = d.dotfile.group_name,
                   !.step = "Initialize", !.item = "Initialize"]

\* the loop takes its next group, or ends (hooks.rs 202, 218)
SetCmdGroup ==
    /\ last.pc = "loop"
    /\ last' = IF last.i > Len(last.targets) THEN Returned_set(last, "SUCCESS")
               ELSE GroupStart(last, platform, try_from(HooksDir \o <<last.targets[last.i]>>))
    /\ UNCHANGED <<fs, platform, sym, pre, prev, ncmds>>

\* the scripts run_hook runs for a stage: the files of Hooks/<group> whose
\* name starts with pre (PreHook) or post (PostHook) (hooks.rs 86-108)
HookScripts(f, group, stage) ==
    {x \in Range(FileNames(ReadDirSeq(f, HooksDir \o <<group>>, HookNames))) :
        StrStartsWith(x, IF stage = "PreHook" THEN "pre" ELSE "post")}

\* what run_hook can return (hooks.rs 72-127): NoSetupFolder when the folder
\* of the group cannot be read, FAILURE when a script fails, else Ok
RunHookResults(f, group, stage) ==
    IF ~CanList(f, HooksDir \o <<group>>) THEN {"NoSetupFolder"}
    ELSE IF HookScripts(f, group, stage) = {} THEN {"Ok"}
    ELSE {"Ok", "FAILURE"}

\* a stage has run for the group
Logged(c, n, result) ==
    [c EXCEPT !.step = n.step, !.item = n.item,
              !.trace = Append(@, [i |-> c.i, group |-> c.group, stage |-> n.item,
                                   result |-> result])]

\* PreHook and PostHook in run_deploy_steps (hooks.rs 159-161, 172): an error
\* of run_hook is returned by set_cmd
HookStage(c, n, result) ==
    IF result = "Ok" THEN Logged(c, n, result)
    ELSE Returned_set(Logged(c, n, result), result)

\* Symlink in run_deploy_steps (hooks.rs 163-170): add_cmd on every group
\* given to set_cmd; its exit code is dropped
LinkStage(c, n, r) ==
    IF r.exit = "panic" THEN Returned_set(Logged(c, n, "panic"), "panic")
    ELSE Logged(c, n, "Ok")

\* one turn of `for i in step` in run_deploy_steps (hooks.rs 156-177); when
\* the stages end, set_cmd returns (hooks.rs 196-199, 212-215)
SetCmdStage ==
    /\ last.pc = "steps"
    /\ \/ /\ DeployNext(last.step).item = "None"
          /\ last' = Returned_set([last EXCEPT !.item = "None"], "SUCCESS")
          /\ UNCHANGED fs
       \/ /\ DeployNext(last.step).item \in {"PreHook", "PostHook"}
          /\ \E result \in RunHookResults(fs, last.group, DeployNext(last.step).item) :
                last' = HookStage(last, DeployNext(last.step), result)
          /\ UNCHANGED fs
       \/ /\ DeployNext(last.step).item = "Symlink"
          /\ \E r \in {RunCmd(fs, platform,
                              Args("add", last.groups, <<>>, [force |-> FALSE, adopt |-> FALSE]),
                              HookNames, HookNames)} :
                /\ last' = LinkStage(last, DeployNext(last.step), r)
                /\ fs' = r.st.fs
    /\ UNCHANGED <<platform, sym, pre, prev, ncmds>>

NextHooks == SetCmdStart \/ SetCmdGroup \/ SetCmdStage

SpecHooks == InitHooks /\ [][NextHooks]_vars

\* the stages in the order the pipeline has them
Pipeline == <<"PreHook", "Symlink", "PostHook">>

\* the stages that ran for the i-th group of the loop, in the order they ran
StagesOf(c, i) == SelectSeq(c.trace, LAMBDA e : e.i = i)

\* t is a beginning of the pipeline, each stage after one that ended well
InOrder(t) ==
    /\ Len(t) <= Len(Pipeline)
    /\ \A k \in DOMAIN t : t[k].stage = Pipeline[k] /\ (k > 1 => t[k - 1].result = "Ok")

Deployed(c) ==
    {c.targets[i] : i \in {j \in DOMAIN c.targets : Len(StagesOf(c, j)) = Len(Pipeline)}}

(* C26: when no stage fails, set_cmd has run the three stages for every group *)
(* of the list, or under the wildcard for every folder of Hooks, by the time  *)
(* it returns.                                                                *)
C26_EveryGroup ==
    last.op = "set_cmd" /\ last.pc = "done" /\ last.exit = "SUCCESS" =>
       Range(last.targets) \subseteq Deployed(last)

-----------------------------------------------------------------------------
(* validate under different orders of the walk                                *)

\* q turned by k places
Rotate(q, k) == [i \in 1..Len(q) |-> q[((i + k - 1) % Len(q)) + 1]]

\* the orders read_dir is taken to list the names in: every rotation of
\* NameOrder, forwards and backwards
WalkOrders ==
    {Rotate(NameOrder, k) : k \in 0..(Len(NameOrder) - 1)}
    \cup {Reverse(Rotate(NameOrder, k)) : k \in 0..(Len(NameOrder) - 1)}

NoWalk == [op |-> "none", ord |-> <<>>]

InitWalk ==
    /\ fs \in InitFs
    /\ platform \in Platforms
    /\ sym = NoHandler
    /\ last = NoWalk
    /\ pre = fs
    /\ prev = [cmd |-> NoCmd, pre |-> fs]
    /\ ncmds = 0

\* SymlinkHandler::try_new, the directories listing their names in order ord
ValidateCall ==
    /\ \E ord \in WalkOrders :
          /\ sym' = try_new(fs, ord)
          /\ last' = [op |-> "validate", ord |-> ord]
    /\ UNCHANGED <<fs, platform, pre, prev, ncmds>>

NextWalk == ValidateCall

SpecWalk == InitWalk /\ [][NextWalk]_vars

\* the three maps of a handler
Maps(s) == [n \in MapNames |-> s[n]]

(* C27: for a fixed managed tree and home directory, the Linked, Pending and  *)
(* Foreign maps validate returns are the same whatever the order in which     *)
(* the walk visits the entries under Configs.                                 *)
C27_OrderInsignificant ==
    last.op = "validate" => \A ord \in WalkOrders : Maps(sym) = Maps(try_new(fs, ord))

\* a walk in another order than NameOrder classified a tree with entries in
\* all three maps, one of them beneath a directory of its group
C27_Witness ==
    /\ last.op = "validate" /\ last.ord # NameOrder
    /\ \A n \in MapNames : sym[n] # EmptyCache
    /\ \E n \in MapNames : \E g \in DOMAIN sym.recorded[n] :
          \E x, y \in sym.recorded[n][g] : Beneath(y.path, x.path)

-----------------------------------------------------------------------------
(* What cross-cancellation and canonicalization drop                          *)

\* the paths the walk recorded for group g in map n, and those the final map
\* holds
RecordedPaths(n, g) == {x.path : x \in EntriesOf(sym.recorded[n], g)}
FinalPaths(n, g) == {x.path : x \in EntriesOf(sym[n], g)}

\* the paths of S with no other path of S above them
Minimal(S) == {p \in S : ~\E q \in S : Beneath(p, q)}

\* p lies beneath an entry the walk classified Linked in group g
BeneathLinked(p, g) == \E q \in RecordedPaths("symlinked", g) : Beneath(p, q)

\* every entry recorded and then dropped has an entry above it that is kept,
\* or, in not_symlinked, lies beneath a Linked entry of its group
Covered ==
    \A n \in MapNames : \A g \in DOMAIN sym.recorded[n] :
       \A p \in RecordedPaths(n, g) \ FinalPaths(n, g) :
          \/ \E q \in FinalPaths(n, g) : Beneath(p, q)
          \/ n = "not_symlinked" /\ BeneathLinked(p, g)

(* C28: every entry recorded in a map and absent from the final map has a     *)
(* strict ancestor still in the same map and group or, for Pending, lies      *)
(* beneath a Linked entry of the group; equivalently each final set is the    *)
(* set of the minimal elements of what was recorded.                          *)
C28_Coverage ==
    /\ Covered
    /\ \A n \in MapNames : \A g \in DOMAIN sym.recorded[n] :
          FinalPaths(n, g) = Minimal(RecordedPaths(n, g))

(* C28 as it holds: the same, the final Pending set being the minimal         *)
(* elements of what was recorded Pending and lies beneath no Linked entry.    *)
C28_CoverageAfterCancel ==
    /\ Covered
    /\ \A n \in MapNames : \A g \in DOMAIN sym.recorded[n] :
          FinalPaths(n, g) =
             Minimal({p \in RecordedPaths(n, g) :
                         n = "not_symlinked" => ~BeneathLinked(p, g)})

\* after a command, the walk had recorded a Pending entry beneath a Linked
\* directory, and a Pending entry beneath a Pending directory
C28_Witness ==
    /\ last.op # "none"
    /\ \E g \in DOMAIN sym.recorded.not_symlinked :
          /\ \E p \in RecordedPaths("not_symlinked", g) : BeneathLinked(p, g)
    /\ \E g \in DOMAIN sym.recorded.not_symlinked :
          \E p, q \in RecordedPaths("not_symlinked", g) \cup RecordedPaths("not_owned", g) :
              Beneath(p, q)

-----------------------------------------------------------------------------
(* Linking beneath a foreign symlink                                          *)

\* the managed directories whose target is a symlink that does not hold
\* their path
ForeignDirs(f) ==
    {d \in ManagedEntries(f) :
        f[d].k = "dir" /\ TargetKind(f, d) = "link" /\ ReadLink(f, Target(d)) # d}

\* the last command created the entry that is now at the target of p
CreatedAtTarget(p) == ResolveNoFollow(fs, Target(p)) \in DOMAIN fs \ DOMAIN pre

\* p is an entry of not_symlinked in the handler built before the last command
ReportedPending(p) ==
    \E g \in DOMAIN validate(pre, NameOrder).not_symlinked :
       \E x \in validate(pre, NameOrder).not_symlinked[g] : x.path = p

(* C29: link without force or adopt does not write through a foreign symlink: *)
(* when the target of a managed directory d is a symlink not holding d, link  *)
(* creates nothing at a target beneath the target of d, and no entry beneath  *)
(* d is reported Pending.                                                     *)
C29_NoWriteThrough ==
    last.op = "add" /\ ~last.force /\ ~last.adopt =>
       \A d \in ForeignDirs(pre) : \A p \in ManagedEntries(pre) :
          Beneath(p, d) => ~CreatedAtTarget(p) /\ ~ReportedPending(p)

-----------------------------------------------------------------------------
(* dir_map (fileops.rs 14-36) one turn of its loop at a time, with a callback *)
(* that only notes the path it is given                                       *)

\* Group1 with a/x, a/y and b; with or without Group1_unix holding a/y; with
\* or without symlinks to directories inside the managed tree, none of them
\* leading back to a directory above itself
DirMapFs ==
    {BaseFs @@ Tree(G1, {<<"a", "x">>, <<"a", "y">>, <<"b">>}) @@ m2 @@ l1 @@ l2 :
        m2 \in {EmptyFs, Tree(G1u, {<<"a", "y">>})},
        l1 \in {EmptyFs, At(G1 \o <<"y">>, LinkNode(Elsewhere)),
                At(G1 \o <<"y">>, LinkNode(G1 \o <<"a">>))},
        l2 \in {EmptyFs, At(ConfigsDir \o <<"x">>, LinkNode(G1 \o <<"a">>)),
                At(ConfigsDir \o <<"x">>, FileNode)}}

\* the directories Dotfile::map starts dir_map from (dotfiles.rs 186): Configs
\* and a group directory
DirMapStarts == {ConfigsDir, G1}

NoDirMap == [op |-> "none", pc |-> "idle", start |-> <<>>, ord |-> <<>>, queue |-> <<>>,
             visited |-> <<>>]

InitDirMap ==
    /\ fs \in DirMapFs
    /\ platform \in Platforms
    /\ sym = NoHandler
    /\ last = NoDirMap
    /\ pre = fs
    /\ prev = [cmd |-> NoCmd, pre |-> fs]
    /\ ncmds = 0

\* fileops.rs 18-24: the queue starts as the entries of dir_path; a dir_path
\* that cannot be listed panics
DirMapCall(f, dir_path, ord) ==
    IF ~CanList(f, dir_path)
       THEN [NoDirMap EXCEPT !.op = "dir_map", !.pc = "panic", !.start = dir_path,
                             !.ord = ord]
       ELSE [NoDirMap EXCEPT !.op = "dir_map", !.pc = "loop", !.start = dir_path,
                             !.ord = ord, !.queue = ReadDirSeq(f, dir_path, ord)]

DirMapStart ==
    /\ last.pc = "idle"
    /\ \E dir_path \in DirMapStarts, ord \in Orders : last' = DirMapCall(fs, dir_path, ord)
    /\ UNCHANGED <<fs, platform, sym, pre, prev, ncmds>>

\* the queue after a turn that never lists a directory
QueueAfterFile(f, curr_file, rest, ord) == rest

\* fileops.rs 29-34: the entries of curr_file pushed when it is a directory
QueueAfter(f, curr_file, rest, ord) ==
    IF CanList(f, curr_file) THEN rest \o ReadDirSeq(f, curr_file, ord) ELSE rest

\* fileops.rs 26-35: one turn of `while let Some(curr_file) = queue.pop()`
DirMapTurn(c, f) ==
    IF c.queue = <<>> THEN [c EXCEPT !.pc = "done"]
    ELSE IF IsDir(f, c.queue[Len(c.queue)]) /\ ~CanList(f, c.queue[Len(c.queue)])
       THEN [c EXCEPT !.pc = "panic", !.visited = Append(@, c.queue[Len(c.queue)])]
    ELSE [c EXCEPT !.visited = Append(@, c.queue[Len(c.queue)]),
                   !.queue = QueueAfter(f, c.queue[Len(c.queue)],
                                        SubSeq(c.queue, 1, Len(c.queue) - 1), c.ord)]

DirMapStep ==
    /\ last.pc = "loop"
    /\ last' = DirMapTurn(last, fs)
    /\ UNCHANGED <<fs, platform, sym, pre, prev, ncmds>>

NextDirMap == DirMapStart \/ DirMapStep

\* the call is made and the loop keeps turning
SpecDirMap == InitDirMap /\ [][NextDirMap]_vars /\ WF_vars(NextDirMap)

\* the entries of the directory d, by the path they have through d
Children(f, d) ==
    IF IsDir(f, d) THEN {d \o <<e>> : e \in {n \in Range(NameOrder) :
                                               (Resolve(f, d) \o <<n>>) \in DOMAIN f}}
    ELSE {}

\* the entries beneath d, at most n levels down
RECURSIVE EntriesBeneath(_, _, _)
EntriesBeneath(f, d, n) ==
    IF n = 0 THEN {}
    ELSE Children(f, d) \cup UNION {EntriesBeneath(f, c, n - 1) : c \in Children(f, d)}

\* the callback was given each path at most once, never the start directory,
\* only paths beneath it, and a directory before anything beneath it
VisitsInOrder(c) ==
    /\ \A i, j \in DOMAIN c.visited : c.visited[i] = c.visited[j] => i = j
    /\ \A i \in DOMAIN c.visited :
          /\ Beneath(c.visited[i], c.start)
          /\ Parent(c.visited[i]) # c.start =>
                \E j \in 1..(i - 1) : c.visited[j] = Parent(c.visited[i])

\* when the walk is over the callback has been given every entry beneath the
\* start directory
VisitsAll(c) ==
    c.pc = "done" =>
       Range(c.visited) = EntriesBeneath(fs, c.start, Cardinality(DOMAIN fs))

(* C30: dir_map calls its callback exactly once for every entry beneath the   *)
(* start directory and never for the start directory, on a directory before   *)
(* anything beneath it, and it terminates on a tree without a cycle through   *)
(* directory symlinks.                                                        *)
C30_DirMap ==
    /\ [](VisitsInOrder(last) /\ VisitsAll(last))
    /\ <>(last.pc = "done")

\* a walk from Configs is over that went through a symlink to a directory
C30_Witness ==
    /\ last.pc = "done" /\ last.start = ConfigsDir
    /\ \E i \in DOMAIN last.visited :
          /\ fs[ResolveNoFollow(fs, Parent(last.visited[i]))].k = "link"
====
